---------------------------- MODULE Spec2Model ----------------------------
(***************************************************************************)
(* A model of the lint command of housecat-inc/do: the command's RunE, the *)
(* analysis driver runAnalyzers with its generated-file filter, and the    *)
(* two analyzers pkgerrors and nocomments, run over a corpus of parsed Go  *)
(* files.                                                                  *)
(*                                                                         *)
(* A parsed file (an ast.File) is a record holding its node table in       *)
(* ast.Walk order, its comment groups, its import specs and its line       *)
(* table.  Comment texts are sequences of characters, so that              *)
(* strings.HasPrefix and strings.HasSuffix are computed on the raw text.   *)
(* The state holds handles (unit and file names) where the Go code holds   *)
(* pointers.                                                               *)
(***************************************************************************)
EXTENDS Integers, Sequences, FiniteSets, TLC

VARIABLES
    pc,            \* position of the process in RunE / runAnalyzers
    listAnalyzers, \* the --list flag
    analyzers,     \* the analyzers slice handed to runAnalyzers (names)
    stdout,        \* lines written to os.Stdout
    stderr,        \* lines written to os.Stderr
    effects,       \* external steps taken so far (a set of tags)
    golangciErr,   \* whether golangci-lint's Run returned an error
    hasErrors,     \* RunE's local hasErrors
    loadErr,       \* whether packages.Load returned an error
    pkgs,          \* the slice packages.Load returned (unit names)
    pkgIdx,        \* index of the range loop over pkgs
    files,         \* filterGenerated(pkg.Syntax) of the current unit (file names)
    aIdx,          \* index of the range loop over analyzers
    pending,       \* diagnostics the running a.Run has yet to report
    issues,        \* runAnalyzers' local counter
    ret,           \* the value runAnalyzers returned (-1 before it returns)
    passes,        \* history: every analysis.Pass constructed
    reported,      \* history: every diagnostic handed to a Pass's Report
    faults,        \* history: every a.Run that returned an error or panicked
    exitCode,      \* the process's exit status (-1 while running)
    prior,         \* the result of an earlier call of runAnalyzers in the process, if any
    workers,       \* the goroutines of a pool that runs the unit loop's body, if any
    rootCmd,       \* the state of rootCmd.RunE (the bare "do" command)
    updateCmd      \* the state of updateCmd.RunE and runWithRetry ("do update")

vars == <<pc, listAnalyzers, analyzers, stdout, stderr, effects, golangciErr,
          hasErrors, loadErr, pkgs, pkgIdx, files, aIdx, pending, issues, ret,
          passes, reported, faults, exitCode, prior, workers, rootCmd, updateCmd>>

\* The largest number of units one packages.Load returns in the model.
MaxUnits == 2

\* The largest number of analyzers handed to runAnalyzers when it is driven
\* directly (RunE always hands it its two-analyzer registry).
MaxAnalyzers == 2

-----------------------------------------------------------------------------
(* Sequences and strings *)

\* strings.HasPrefix on a text held as a sequence of characters.
HasPrefix(s, prefix) ==
    /\ Len(s) >= Len(prefix)
    /\ SubSeq(s, 1, Len(prefix)) = prefix

\* strings.HasSuffix on a text held as a sequence of characters.
HasSuffix(s, suffix) ==
    /\ Len(s) >= Len(suffix)
    /\ SubSeq(s, Len(s) - Len(suffix) + 1, Len(s)) = suffix

RECURSIVE Flatten(_)
\* The concatenation of a sequence of sequences.
Flatten(ss) == IF ss = <<>> THEN <<>> ELSE Head(ss) \o Flatten(Tail(ss))

\* The elements of a sequence, as a set.
Range(s) == {s[i] : i \in 1..Len(s)}

\* The sequences of length at most n over S that repeat no element.
InjectiveSeqs(S, n) ==
    UNION {{s \in [1..k -> S] : \A i, j \in 1..k : s[i] = s[j] => i = j} : k \in 0..n}

\* The character U+0060, which a TLA+ string cannot hold.
Backquote == "U+0060"

\* An ast.Node of a file's node table: its dynamic type, its Pos(), the index
\* of its Doc comment group in the file's Comments (0 for nil), its name or
\* literal text, and its children in the order ast.Walk visits them.  An
\* ImportSpec's name is its Path.Value, the literal as written, held as a
\* sequence of characters, and its aux its local name; an Ident's aux is what
\* the identifier denotes.
Node(kind, pos, doc, name, aux, kids) ==
    [kind |-> kind, pos |-> pos, doc |-> doc, name |-> name, aux |-> aux, kids |-> kids]

-----------------------------------------------------------------------------
(* The corpus: parsed files, as go/parser builds them from the sources     *)
(* quoted above each.                                                      *)

\* errs.go:
\*     package errs
\*
\*     import (
\*         "errors"
\*         raw `errors`
\*         "fmt"
\*         other "example.com/other"
\*     )
\*
\*     func F() error {
\*         other.Errorf("c")
\*         fmt.Println(fmt.Errorf("d"))
\*         return fmt.Errorf("e: %v", raw.New("r"), errors.New("s"))
\*     }
\*
\*     func G(a holder) {
\*         a.fmt.Errorf("chain")
\*         (fmt.Errorf)("paren")
\*     }
FileErrs ==
  [ name |-> "errs.go", base |-> 1, size |-> 279,
    lines |-> <<0, 13, 14, 23, 33, 47, 54, 81, 83, 84, 101, 120, 150, 209, 211, 212, 231, 254, 277>>,
    doc |-> 0,
    imports |-> <<4, 5, 6, 7>>,
    comments |-> <<

    >>,
    nodes |-> <<
      (*  1 *) Node("File", 1, 0, "", "", <<2, 3, 8, 43>>),
      (*  2 *) Node("Ident", 9, 0, "errs", "", <<>>),
      (*  3 *) Node("GenDecl", 15, 0, "import", "", <<4, 5, 6, 7>>),
      (*  4 *) Node("ImportSpec", 25, 0, <<"\"", "e", "r", "r", "o", "r", "s", "\"">>, "", <<>>),
      (*  5 *) Node("ImportSpec", 35, 0, <<Backquote, "e", "r", "r", "o", "r", "s", Backquote>>, "raw", <<>>),
      (*  6 *) Node("ImportSpec", 49, 0, <<"\"", "f", "m", "t", "\"">>, "", <<>>),
      (*  7 *) Node("ImportSpec", 56, 0, <<"\"", "e", "x", "a", "m", "p", "l", "e", ".", "c", "o", "m", "/", "o", "t", "h", "e", "r", "\"">>, "other", <<>>),
      (*  8 *) Node("FuncDecl", 85, 0, "F", "", <<9, 10>>),
      (*  9 *) Node("Ident", 90, 0, "F", "", <<>>),
      (* 10 *) Node("BlockStmt", 100, 0, "", "", <<11, 17, 27>>),
      (* 11 *) Node("ExprStmt", 103, 0, "", "", <<12>>),
      (* 12 *) Node("CallExpr", 103, 0, "", "", <<13, 16>>),
      (* 13 *) Node("SelectorExpr", 103, 0, "", "", <<14, 15>>),
      (* 14 *) Node("Ident", 103, 0, "other", "package other", <<>>),
      (* 15 *) Node("Ident", 109, 0, "Errorf", "", <<>>),
      (* 16 *) Node("BasicLit", 116, 0, "\"c\"", "", <<>>),
      (* 17 *) Node("ExprStmt", 122, 0, "", "", <<18>>),
      (* 18 *) Node("CallExpr", 122, 0, "", "", <<19, 22>>),
      (* 19 *) Node("SelectorExpr", 122, 0, "", "", <<20, 21>>),
      (* 20 *) Node("Ident", 122, 0, "fmt", "package fmt", <<>>),
      (* 21 *) Node("Ident", 126, 0, "Println", "", <<>>),
      (* 22 *) Node("CallExpr", 134, 0, "", "", <<23, 26>>),
      (* 23 *) Node("SelectorExpr", 134, 0, "", "", <<24, 25>>),
      (* 24 *) Node("Ident", 134, 0, "fmt", "package fmt", <<>>),
      (* 25 *) Node("Ident", 138, 0, "Errorf", "", <<>>),
      (* 26 *) Node("BasicLit", 145, 0, "\"d\"", "", <<>>),
      (* 27 *) Node("ReturnStmt", 152, 0, "", "", <<28>>),
      (* 28 *) Node("CallExpr", 159, 0, "", "", <<29, 32, 33, 38>>),
      (* 29 *) Node("SelectorExpr", 159, 0, "", "", <<30, 31>>),
      (* 30 *) Node("Ident", 159, 0, "fmt", "package fmt", <<>>),
      (* 31 *) Node("Ident", 163, 0, "Errorf", "", <<>>),
      (* 32 *) Node("BasicLit", 170, 0, "\"e: %v\"", "", <<>>),
      (* 33 *) Node("CallExpr", 179, 0, "", "", <<34, 37>>),
      (* 34 *) Node("SelectorExpr", 179, 0, "", "", <<35, 36>>),
      (* 35 *) Node("Ident", 179, 0, "raw", "package errors", <<>>),
      (* 36 *) Node("Ident", 183, 0, "New", "", <<>>),
      (* 37 *) Node("BasicLit", 187, 0, "\"r\"", "", <<>>),
      (* 38 *) Node("CallExpr", 193, 0, "", "", <<39, 42>>),
      (* 39 *) Node("SelectorExpr", 193, 0, "", "", <<40, 41>>),
      (* 40 *) Node("Ident", 193, 0, "errors", "package errors", <<>>),
      (* 41 *) Node("Ident", 200, 0, "New", "", <<>>),
      (* 42 *) Node("BasicLit", 204, 0, "\"s\"", "", <<>>),
      (* 43 *) Node("FuncDecl", 213, 0, "G", "", <<44, 45>>),
      (* 44 *) Node("Ident", 218, 0, "G", "", <<>>),
      (* 45 *) Node("BlockStmt", 230, 0, "", "", <<46, 54>>),
      (* 46 *) Node("ExprStmt", 233, 0, "", "", <<47>>),
      (* 47 *) Node("CallExpr", 233, 0, "", "", <<48, 53>>),
      (* 48 *) Node("SelectorExpr", 233, 0, "", "", <<49, 52>>),
      (* 49 *) Node("SelectorExpr", 233, 0, "", "", <<50, 51>>),
      (* 50 *) Node("Ident", 233, 0, "a", "var a", <<>>),
      (* 51 *) Node("Ident", 235, 0, "fmt", "", <<>>),
      (* 52 *) Node("Ident", 239, 0, "Errorf", "", <<>>),
      (* 53 *) Node("BasicLit", 246, 0, "\"chain\"", "", <<>>),
      (* 54 *) Node("ExprStmt", 256, 0, "", "", <<55>>),
      (* 55 *) Node("CallExpr", 256, 0, "", "", <<56, 60>>),
      (* 56 *) Node("ParenExpr", 256, 0, "", "", <<57>>),
      (* 57 *) Node("SelectorExpr", 257, 0, "", "", <<58, 59>>),
      (* 58 *) Node("Ident", 257, 0, "fmt", "package fmt", <<>>),
      (* 59 *) Node("Ident", 261, 0, "Errorf", "", <<>>),
      (* 60 *) Node("BasicLit", 269, 0, "\"paren\"", "", <<>>)
    >> ]

\* docs.go:
\*     // Package docs is documented.
\*     package docs
\*
\*     import (
\*         // side effects
\*         _ "embed"
\*     )
\*
\*     // T is a type.
\*     type T struct {
\*         // A is a field.
\*         A int
\*     }
\*
\*     var (
\*         // V is a var.
\*         V = 1
\*     )
\*
\*     type (
\*         // S is a spec.
\*         S int
\*     )
\*
\*     // F does things.
\*     // TODO even this text is fine here.
\*     func F() {
\*         // TODO fix this
\*         //! TODO fix this
\*         /*! block note */
\*         /* plain block */
\*     }
FileDocs ==
  [ name |-> "docs.go", base |-> 1000, size |-> 354,
    lines |-> <<0, 31, 44, 45, 54, 71, 82, 84, 85, 101, 117, 135, 142, 144, 145, 151, 167, 174, 176, 177, 184, 201, 208, 210, 211, 229, 266, 277, 295, 314, 333, 352>>,
    doc |-> 1,
    imports |-> <<4>>,
    comments |-> <<
      <<
        [pos |-> 1000, text |-> <<"/", "/", " ", "P", "a", "c", "k", "a", "g", "e", " ", "d", "o", "c", "s", " ", "i", "s", " ", "d", "o", "c", "u", "m", "e", "n", "t", "e", "d", ".">>]
      >>,
      <<
        [pos |-> 1055, text |-> <<"/", "/", " ", "s", "i", "d", "e", " ", "e", "f", "f", "e", "c", "t", "s">>]
      >>,
      <<
        [pos |-> 1085, text |-> <<"/", "/", " ", "T", " ", "i", "s", " ", "a", " ", "t", "y", "p", "e", ".">>]
      >>,
      <<
        [pos |-> 1118, text |-> <<"/", "/", " ", "A", " ", "i", "s", " ", "a", " ", "f", "i", "e", "l", "d", ".">>]
      >>,
      <<
        [pos |-> 1152, text |-> <<"/", "/", " ", "V", " ", "i", "s", " ", "a", " ", "v", "a", "r", ".">>]
      >>,
      <<
        [pos |-> 1185, text |-> <<"/", "/", " ", "S", " ", "i", "s", " ", "a", " ", "s", "p", "e", "c", ".">>]
      >>,
      <<
        [pos |-> 1211, text |-> <<"/", "/", " ", "F", " ", "d", "o", "e", "s", " ", "t", "h", "i", "n", "g", "s", ".">>],
        [pos |-> 1229, text |-> <<"/", "/", " ", "T", "O", "D", "O", " ", "e", "v", "e", "n", " ", "t", "h", "i", "s", " ", "t", "e", "x", "t", " ", "i", "s", " ", "f", "i", "n", "e", " ", "h", "e", "r", "e", ".">>]
      >>,
      <<
        [pos |-> 1278, text |-> <<"/", "/", " ", "T", "O", "D", "O", " ", "f", "i", "x", " ", "t", "h", "i", "s">>],
        [pos |-> 1296, text |-> <<"/", "/", "!", " ", "T", "O", "D", "O", " ", "f", "i", "x", " ", "t", "h", "i", "s">>],
        [pos |-> 1315, text |-> <<"/", "*", "!", " ", "b", "l", "o", "c", "k", " ", "n", "o", "t", "e", " ", "*", "/">>],
        [pos |-> 1334, text |-> <<"/", "*", " ", "p", "l", "a", "i", "n", " ", "b", "l", "o", "c", "k", " ", "*", "/">>]
      >>
    >>,
    nodes |-> <<
      (*  1 *) Node("File", 1031, 1, "", "", <<2, 3, 5, 13, 17, 21>>),
      (*  2 *) Node("Ident", 1039, 0, "docs", "", <<>>),
      (*  3 *) Node("GenDecl", 1045, 0, "import", "", <<4>>),
      (*  4 *) Node("ImportSpec", 1072, 2, <<"\"", "e", "m", "b", "e", "d", "\"">>, "_", <<>>),
      (*  5 *) Node("GenDecl", 1101, 3, "type", "", <<6>>),
      (*  6 *) Node("TypeSpec", 1106, 0, "T", "", <<7, 8>>),
      (*  7 *) Node("Ident", 1106, 0, "T", "", <<>>),
      (*  8 *) Node("StructType", 1108, 0, "", "", <<9>>),
      (*  9 *) Node("FieldList", 1115, 0, "", "", <<10>>),
      (* 10 *) Node("Field", 1136, 4, "", "", <<11, 12>>),
      (* 11 *) Node("Ident", 1136, 0, "A", "", <<>>),
      (* 12 *) Node("Ident", 1138, 0, "int", "", <<>>),
      (* 13 *) Node("GenDecl", 1145, 0, "var", "", <<14>>),
      (* 14 *) Node("ValueSpec", 1168, 5, "", "", <<15, 16>>),
      (* 15 *) Node("Ident", 1168, 0, "V", "", <<>>),
      (* 16 *) Node("BasicLit", 1172, 0, "1", "", <<>>),
      (* 17 *) Node("GenDecl", 1177, 0, "type", "", <<18>>),
      (* 18 *) Node("TypeSpec", 1202, 6, "S", "", <<19, 20>>),
      (* 19 *) Node("Ident", 1202, 0, "S", "", <<>>),
      (* 20 *) Node("Ident", 1204, 0, "int", "", <<>>),
      (* 21 *) Node("FuncDecl", 1266, 7, "F", "", <<22, 23>>),
      (* 22 *) Node("Ident", 1271, 0, "F", "", <<>>),
      (* 23 *) Node("BlockStmt", 1275, 0, "", "", <<>>)
    >> ]

\* gen.go:
\*     // Code generated by tool. DO NOT EDIT.
\*
\*     package gen
\*
\*     import (
\*         "errors"
\*         "fmt"
\*     )
\*
\*     func G() error {
\*         // junk
\*         return fmt.Errorf("g: %v", errors.New("x"))
\*     }
FileGen ==
  [ name |-> "gen.go", base |-> 2000, size |-> 156,
    lines |-> <<0, 40, 41, 53, 54, 63, 73, 80, 82, 83, 100, 109, 154>>,
    doc |-> 0,
    imports |-> <<4, 5>>,
    comments |-> <<
      <<
        [pos |-> 2000, text |-> <<"/", "/", " ", "C", "o", "d", "e", " ", "g", "e", "n", "e", "r", "a", "t", "e", "d", " ", "b", "y", " ", "t", "o", "o", "l", ".", " ", "D", "O", " ", "N", "O", "T", " ", "E", "D", "I", "T", ".">>]
      >>,
      <<
        [pos |-> 2101, text |-> <<"/", "/", " ", "j", "u", "n", "k">>]
      >>
    >>,
    nodes |-> <<
      (*  1 *) Node("File", 2041, 0, "", "", <<2, 3, 6>>),
      (*  2 *) Node("Ident", 2049, 0, "gen", "", <<>>),
      (*  3 *) Node("GenDecl", 2054, 0, "import", "", <<4, 5>>),
      (*  4 *) Node("ImportSpec", 2064, 0, <<"\"", "e", "r", "r", "o", "r", "s", "\"">>, "", <<>>),
      (*  5 *) Node("ImportSpec", 2074, 0, <<"\"", "f", "m", "t", "\"">>, "", <<>>),
      (*  6 *) Node("FuncDecl", 2083, 0, "G", "", <<7, 8>>),
      (*  7 *) Node("Ident", 2088, 0, "G", "", <<>>),
      (*  8 *) Node("BlockStmt", 2098, 0, "", "", <<9>>),
      (*  9 *) Node("ReturnStmt", 2110, 0, "", "", <<10>>),
      (* 10 *) Node("CallExpr", 2117, 0, "", "", <<11, 14, 15>>),
      (* 11 *) Node("SelectorExpr", 2117, 0, "", "", <<12, 13>>),
      (* 12 *) Node("Ident", 2117, 0, "fmt", "package fmt", <<>>),
      (* 13 *) Node("Ident", 2121, 0, "Errorf", "", <<>>),
      (* 14 *) Node("BasicLit", 2128, 0, "\"g: %v\"", "", <<>>),
      (* 15 *) Node("CallExpr", 2137, 0, "", "", <<16, 19>>),
      (* 16 *) Node("SelectorExpr", 2137, 0, "", "", <<17, 18>>),
      (* 17 *) Node("Ident", 2137, 0, "errors", "package errors", <<>>),
      (* 18 *) Node("Ident", 2144, 0, "New", "", <<>>),
      (* 19 *) Node("BasicLit", 2148, 0, "\"x\"", "", <<>>)
    >> ]

\* gen2.go:
\*     package mixed
\*
\*     // Code generated by tool. DO NOT EDIT.
\*
\*     import "errors"
\*
\*     var E = errors.New("e")
FileGen2 ==
  [ name |-> "gen2.go", base |-> 3000, size |-> 97,
    lines |-> <<0, 14, 15, 55, 56, 72, 73>>,
    doc |-> 0,
    imports |-> <<4>>,
    comments |-> <<
      <<
        [pos |-> 3015, text |-> <<"/", "/", " ", "C", "o", "d", "e", " ", "g", "e", "n", "e", "r", "a", "t", "e", "d", " ", "b", "y", " ", "t", "o", "o", "l", ".", " ", "D", "O", " ", "N", "O", "T", " ", "E", "D", "I", "T", ".">>]
      >>
    >>,
    nodes |-> <<
      (*  1 *) Node("File", 3000, 0, "", "", <<2, 3, 5>>),
      (*  2 *) Node("Ident", 3008, 0, "mixed", "", <<>>),
      (*  3 *) Node("GenDecl", 3056, 0, "import", "", <<4>>),
      (*  4 *) Node("ImportSpec", 3063, 0, <<"\"", "e", "r", "r", "o", "r", "s", "\"">>, "", <<>>),
      (*  5 *) Node("GenDecl", 3073, 0, "var", "", <<6>>),
      (*  6 *) Node("ValueSpec", 3077, 0, "", "", <<7, 8>>),
      (*  7 *) Node("Ident", 3077, 0, "E", "", <<>>),
      (*  8 *) Node("CallExpr", 3081, 0, "", "", <<9, 12>>),
      (*  9 *) Node("SelectorExpr", 3081, 0, "", "", <<10, 11>>),
      (* 10 *) Node("Ident", 3081, 0, "errors", "package errors", <<>>),
      (* 11 *) Node("Ident", 3088, 0, "New", "", <<>>),
      (* 12 *) Node("BasicLit", 3092, 0, "\"e\"", "", <<>>)
    >> ]

\* hand.go:
\*     package mixed
\*
\*     import "fmt"
\*
\*     func H() error {
\*         return fmt.Errorf("h") // trailing
\*     }
FileHand ==
  [ name |-> "hand.go", base |-> 3200, size |-> 84,
    lines |-> <<0, 14, 15, 28, 29, 46, 82>>,
    doc |-> 0,
    imports |-> <<4>>,
    comments |-> <<
      <<
        [pos |-> 3270, text |-> <<"/", "/", " ", "t", "r", "a", "i", "l", "i", "n", "g">>]
      >>
    >>,
    nodes |-> <<
      (*  1 *) Node("File", 3200, 0, "", "", <<2, 3, 5>>),
      (*  2 *) Node("Ident", 3208, 0, "mixed", "", <<>>),
      (*  3 *) Node("GenDecl", 3215, 0, "import", "", <<4>>),
      (*  4 *) Node("ImportSpec", 3222, 0, <<"\"", "f", "m", "t", "\"">>, "", <<>>),
      (*  5 *) Node("FuncDecl", 3229, 0, "H", "", <<6, 7>>),
      (*  6 *) Node("Ident", 3234, 0, "H", "", <<>>),
      (*  7 *) Node("BlockStmt", 3244, 0, "", "", <<8>>),
      (*  8 *) Node("ReturnStmt", 3247, 0, "", "", <<9>>),
      (*  9 *) Node("CallExpr", 3254, 0, "", "", <<10, 13>>),
      (* 10 *) Node("SelectorExpr", 3254, 0, "", "", <<11, 12>>),
      (* 11 *) Node("Ident", 3254, 0, "fmt", "package fmt", <<>>),
      (* 12 *) Node("Ident", 3258, 0, "Errorf", "", <<>>),
      (* 13 *) Node("BasicLit", 3265, 0, "\"h\"", "", <<>>)
    >> ]

\* clean.go:
\*     // Package clean has nothing to report.
\*     package clean
\*
\*     // H does nothing.
\*     func H() {}
FileClean ==
  [ name |-> "clean.go", base |-> 4000, size |-> 86,
    lines |-> <<0, 40, 54, 55, 74>>,
    doc |-> 1,
    imports |-> <<>>,
    comments |-> <<
      <<
        [pos |-> 4000, text |-> <<"/", "/", " ", "P", "a", "c", "k", "a", "g", "e", " ", "c", "l", "e", "a", "n", " ", "h", "a", "s", " ", "n", "o", "t", "h", "i", "n", "g", " ", "t", "o", " ", "r", "e", "p", "o", "r", "t", ".">>]
      >>,
      <<
        [pos |-> 4055, text |-> <<"/", "/", " ", "H", " ", "d", "o", "e", "s", " ", "n", "o", "t", "h", "i", "n", "g", ".">>]
      >>
    >>,
    nodes |-> <<
      (*  1 *) Node("File", 4040, 1, "", "", <<2, 3>>),
      (*  2 *) Node("Ident", 4048, 0, "clean", "", <<>>),
      (*  3 *) Node("FuncDecl", 4074, 2, "H", "", <<4, 5>>),
      (*  4 *) Node("Ident", 4079, 0, "H", "", <<>>),
      (*  5 *) Node("BlockStmt", 4083, 0, "", "", <<>>)
    >> ]

\* broken.go:
\*     package broken
\*
\*     import "errors"
\*
\*     func B( {
FileBroken ==
  [ name |-> "broken.go", base |-> 5000, size |-> 43,
    lines |-> <<0, 15, 16, 32, 33>>,
    doc |-> 0,
    imports |-> <<4>>,
    comments |-> <<

    >>,
    nodes |-> <<
      (*  1 *) Node("File", 5000, 0, "", "", <<2, 3, 5>>),
      (*  2 *) Node("Ident", 5008, 0, "broken", "", <<>>),
      (*  3 *) Node("GenDecl", 5016, 0, "import", "", <<4>>),
      (*  4 *) Node("ImportSpec", 5023, 0, <<"\"", "e", "r", "r", "o", "r", "s", "\"">>, "", <<>>),
      (*  5 *) Node("BadDecl", 5033, 0, "", "", <<>>)
    >> ]

\* notes.go:
\*     package notes
\*
\*     func N() {
\*         // ! note
\*         /* ! note */
\*
\*         // one
\*         // two
\*         // three
\*
\*         //!ok
\*     }
FileNotes ==
  [ name |-> "notes.go", base |-> 6000, size |-> 88,
    lines |-> <<0, 14, 15, 26, 37, 51, 52, 60, 68, 78, 79, 86>>,
    doc |-> 0,
    imports |-> <<>>,
    comments |-> <<
      <<
        [pos |-> 6027, text |-> <<"/", "/", " ", "!", " ", "n", "o", "t", "e">>],
        [pos |-> 6038, text |-> <<"/", "*", " ", "!", " ", "n", "o", "t", "e", " ", "*", "/">>]
      >>,
      <<
        [pos |-> 6053, text |-> <<"/", "/", " ", "o", "n", "e">>],
        [pos |-> 6061, text |-> <<"/", "/", " ", "t", "w", "o">>],
        [pos |-> 6069, text |-> <<"/", "/", " ", "t", "h", "r", "e", "e">>]
      >>,
      <<
        [pos |-> 6080, text |-> <<"/", "/", "!", "o", "k">>]
      >>
    >>,
    nodes |-> <<
      (*  1 *) Node("File", 6000, 0, "", "", <<2, 3>>),
      (*  2 *) Node("Ident", 6008, 0, "notes", "", <<>>),
      (*  3 *) Node("FuncDecl", 6015, 0, "N", "", <<4, 5>>),
      (*  4 *) Node("Ident", 6020, 0, "N", "", <<>>),
      (*  5 *) Node("BlockStmt", 6024, 0, "", "", <<>>)
    >> ]

\* alias.go:
\*     package alias
\*
\*     import f "fmt"
\*
\*     type logger struct{}
\*
\*     func (logger) Errorf(s string) {}
\*
\*     func A() error {
\*         fmt := logger{}
\*         fmt.Errorf("shadow")
\*         return f.Errorf("renamed")
\*     }
FileAlias ==
  [ name |-> "alias.go", base |-> 7000, size |-> 174,
    lines |-> <<0, 14, 15, 30, 31, 52, 53, 87, 88, 105, 122, 144, 172>>,
    doc |-> 0,
    imports |-> <<4>>,
    comments |-> <<

    >>,
    nodes |-> <<
      (*  1 *) Node("File", 7000, 0, "", "", <<2, 3, 5, 10, 21>>),
      (*  2 *) Node("Ident", 7008, 0, "alias", "", <<>>),
      (*  3 *) Node("GenDecl", 7015, 0, "import", "", <<4>>),
      (*  4 *) Node("ImportSpec", 7022, 0, <<"\"", "f", "m", "t", "\"">>, "f", <<>>),
      (*  5 *) Node("GenDecl", 7031, 0, "type", "", <<6>>),
      (*  6 *) Node("TypeSpec", 7036, 0, "logger", "", <<7, 8>>),
      (*  7 *) Node("Ident", 7036, 0, "logger", "", <<>>),
      (*  8 *) Node("StructType", 7043, 0, "", "", <<9>>),
      (*  9 *) Node("FieldList", 7049, 0, "", "", <<>>),
      (* 10 *) Node("FuncDecl", 7053, 0, "Errorf", "", <<11, 14, 15, 20>>),
      (* 11 *) Node("FieldList", 7058, 0, "", "", <<12>>),
      (* 12 *) Node("Field", 7059, 0, "", "", <<13>>),
      (* 13 *) Node("Ident", 7059, 0, "logger", "", <<>>),
      (* 14 *) Node("Ident", 7067, 0, "Errorf", "", <<>>),
      (* 15 *) Node("FuncType", 7053, 0, "", "", <<16>>),
      (* 16 *) Node("FieldList", 7073, 0, "", "", <<17>>),
      (* 17 *) Node("Field", 7074, 0, "", "", <<18, 19>>),
      (* 18 *) Node("Ident", 7074, 0, "s", "", <<>>),
      (* 19 *) Node("Ident", 7076, 0, "string", "", <<>>),
      (* 20 *) Node("BlockStmt", 7084, 0, "", "", <<>>),
      (* 21 *) Node("FuncDecl", 7088, 0, "A", "", <<22, 23>>),
      (* 22 *) Node("Ident", 7093, 0, "A", "", <<>>),
      (* 23 *) Node("BlockStmt", 7103, 0, "", "", <<24, 28, 34>>),
      (* 24 *) Node("AssignStmt", 7106, 0, "", "", <<25, 26>>),
      (* 25 *) Node("Ident", 7106, 0, "fmt", "var fmt", <<>>),
      (* 26 *) Node("CompositeLit", 7113, 0, "", "", <<27>>),
      (* 27 *) Node("Ident", 7113, 0, "logger", "", <<>>),
      (* 28 *) Node("ExprStmt", 7123, 0, "", "", <<29>>),
      (* 29 *) Node("CallExpr", 7123, 0, "", "", <<30, 33>>),
      (* 30 *) Node("SelectorExpr", 7123, 0, "", "", <<31, 32>>),
      (* 31 *) Node("Ident", 7123, 0, "fmt", "var fmt", <<>>),
      (* 32 *) Node("Ident", 7127, 0, "Errorf", "", <<>>),
      (* 33 *) Node("BasicLit", 7134, 0, "\"shadow\"", "", <<>>),
      (* 34 *) Node("ReturnStmt", 7145, 0, "", "", <<35>>),
      (* 35 *) Node("CallExpr", 7152, 0, "", "", <<36, 39>>),
      (* 36 *) Node("SelectorExpr", 7152, 0, "", "", <<37, 38>>),
      (* 37 *) Node("Ident", 7152, 0, "f", "package fmt", <<>>),
      (* 38 *) Node("Ident", 7154, 0, "Errorf", "", <<>>),
      (* 39 *) Node("BasicLit", 7161, 0, "\"renamed\"", "", <<>>)
    >> ]

\* chain.go:
\*     package chain
\*
\*     import "fmt"
\*
\*     func C(a holder, m []holder) {
\*         a.fmt.Errorf("x", fmt.Errorf("in1"))
\*         get().Errorf(fmt.Errorf("in2"))
\*         m[0].Errorf("i")
\*         func() { fmt.Errorf("in3") }()
\*     }
FileChain ==
  [ name |-> "chain.go", base |-> 8000, size |-> 183,
    lines |-> <<0, 14, 15, 28, 29, 60, 98, 131, 149, 181>>,
    doc |-> 0,
    imports |-> <<4>>,
    comments |-> <<

    >>,
    nodes |-> <<
      (*  1 *) Node("File", 8000, 0, "", "", <<2, 3, 5>>),
      (*  2 *) Node("Ident", 8008, 0, "chain", "", <<>>),
      (*  3 *) Node("GenDecl", 8015, 0, "import", "", <<4>>),
      (*  4 *) Node("ImportSpec", 8022, 0, <<"\"", "f", "m", "t", "\"">>, "", <<>>),
      (*  5 *) Node("FuncDecl", 8029, 0, "C", "", <<6, 7>>),
      (*  6 *) Node("Ident", 8034, 0, "C", "", <<>>),
      (*  7 *) Node("BlockStmt", 8058, 0, "", "", <<8, 21, 32, 40>>),
      (*  8 *) Node("ExprStmt", 8061, 0, "", "", <<9>>),
      (*  9 *) Node("CallExpr", 8061, 0, "", "", <<10, 15, 16>>),
      (* 10 *) Node("SelectorExpr", 8061, 0, "", "", <<11, 14>>),
      (* 11 *) Node("SelectorExpr", 8061, 0, "", "", <<12, 13>>),
      (* 12 *) Node("Ident", 8061, 0, "a", "var a", <<>>),
      (* 13 *) Node("Ident", 8063, 0, "fmt", "", <<>>),
      (* 14 *) Node("Ident", 8067, 0, "Errorf", "", <<>>),
      (* 15 *) Node("BasicLit", 8074, 0, "\"x\"", "", <<>>),
      (* 16 *) Node("CallExpr", 8079, 0, "", "", <<17, 20>>),
      (* 17 *) Node("SelectorExpr", 8079, 0, "", "", <<18, 19>>),
      (* 18 *) Node("Ident", 8079, 0, "fmt", "package fmt", <<>>),
      (* 19 *) Node("Ident", 8083, 0, "Errorf", "", <<>>),
      (* 20 *) Node("BasicLit", 8090, 0, "\"in1\"", "", <<>>),
      (* 21 *) Node("ExprStmt", 8099, 0, "", "", <<22>>),
      (* 22 *) Node("CallExpr", 8099, 0, "", "", <<23, 27>>),
      (* 23 *) Node("SelectorExpr", 8099, 0, "", "", <<24, 26>>),
      (* 24 *) Node("CallExpr", 8099, 0, "", "", <<25>>),
      (* 25 *) Node("Ident", 8099, 0, "get", "func get", <<>>),
      (* 26 *) Node("Ident", 8105, 0, "Errorf", "", <<>>),
      (* 27 *) Node("CallExpr", 8112, 0, "", "", <<28, 31>>),
      (* 28 *) Node("SelectorExpr", 8112, 0, "", "", <<29, 30>>),
      (* 29 *) Node("Ident", 8112, 0, "fmt", "package fmt", <<>>),
      (* 30 *) Node("Ident", 8116, 0, "Errorf", "", <<>>),
      (* 31 *) Node("BasicLit", 8123, 0, "\"in2\"", "", <<>>),
      (* 32 *) Node("ExprStmt", 8132, 0, "", "", <<33>>),
      (* 33 *) Node("CallExpr", 8132, 0, "", "", <<34, 39>>),
      (* 34 *) Node("SelectorExpr", 8132, 0, "", "", <<35, 38>>),
      (* 35 *) Node("IndexExpr", 8132, 0, "", "", <<36, 37>>),
      (* 36 *) Node("Ident", 8132, 0, "m", "var m", <<>>),
      (* 37 *) Node("BasicLit", 8134, 0, "0", "", <<>>),
      (* 38 *) Node("Ident", 8137, 0, "Errorf", "", <<>>),
      (* 39 *) Node("BasicLit", 8144, 0, "\"i\"", "", <<>>),
      (* 40 *) Node("ExprStmt", 8150, 0, "", "", <<41>>),
      (* 41 *) Node("CallExpr", 8150, 0, "", "", <<42>>),
      (* 42 *) Node("FuncLit", 8150, 0, "", "", <<43, 44>>),
      (* 43 *) Node("FuncType", 8150, 0, "", "", <<>>),
      (* 44 *) Node("BlockStmt", 8157, 0, "", "", <<45>>),
      (* 45 *) Node("ExprStmt", 8159, 0, "", "", <<46>>),
      (* 46 *) Node("CallExpr", 8159, 0, "", "", <<47, 50>>),
      (* 47 *) Node("SelectorExpr", 8159, 0, "", "", <<48, 49>>),
      (* 48 *) Node("Ident", 8159, 0, "fmt", "package fmt", <<>>),
      (* 49 *) Node("Ident", 8163, 0, "Errorf", "", <<>>),
      (* 50 *) Node("BasicLit", 8170, 0, "\"in3\"", "", <<>>)
    >> ]

\* near.go:
\*     package late
\*
\*     // Code generated by tool. DO NOT EDIT
\*     //Code generated by tool. DO NOT EDIT.
\*     /* Code generated by tool. DO NOT EDIT. */
\*
\*     import "errors"
FileNear ==
  [ name |-> "near.go", base |-> 9000, size |-> 152,
    lines |-> <<0, 13, 14, 53, 92, 135, 136>>,
    doc |-> 0,
    imports |-> <<4>>,
    comments |-> <<
      <<
        [pos |-> 9014, text |-> <<"/", "/", " ", "C", "o", "d", "e", " ", "g", "e", "n", "e", "r", "a", "t", "e", "d", " ", "b", "y", " ", "t", "o", "o", "l", ".", " ", "D", "O", " ", "N", "O", "T", " ", "E", "D", "I", "T">>],
        [pos |-> 9053, text |-> <<"/", "/", "C", "o", "d", "e", " ", "g", "e", "n", "e", "r", "a", "t", "e", "d", " ", "b", "y", " ", "t", "o", "o", "l", ".", " ", "D", "O", " ", "N", "O", "T", " ", "E", "D", "I", "T", ".">>],
        [pos |-> 9092, text |-> <<"/", "*", " ", "C", "o", "d", "e", " ", "g", "e", "n", "e", "r", "a", "t", "e", "d", " ", "b", "y", " ", "t", "o", "o", "l", ".", " ", "D", "O", " ", "N", "O", "T", " ", "E", "D", "I", "T", ".", " ", "*", "/">>]
      >>
    >>,
    nodes |-> <<
      (*  1 *) Node("File", 9000, 0, "", "", <<2, 3>>),
      (*  2 *) Node("Ident", 9008, 0, "late", "", <<>>),
      (*  3 *) Node("GenDecl", 9136, 0, "import", "", <<4>>),
      (*  4 *) Node("ImportSpec", 9143, 0, <<"\"", "e", "r", "r", "o", "r", "s", "\"">>, "", <<>>)
    >> ]

\* deep.go:
\*     package late
\*
\*     import (
\*         "errors"
\*         "fmt"
\*     )
\*
\*     func D() error {
\*         // plain
\*         if true {
\*             // Code generated by tool. DO NOT EDIT.
\*             return fmt.Errorf("d")
\*         }
\*         return errors.New("d")
\*     }
FileDeep ==
  [ name |-> "deep.go", base |-> 9300, size |-> 177,
    lines |-> <<0, 13, 14, 23, 33, 40, 42, 43, 60, 70, 81, 123, 148, 151, 175>>,
    doc |-> 0,
    imports |-> <<4, 5>>,
    comments |-> <<
      <<
        [pos |-> 9361, text |-> <<"/", "/", " ", "p", "l", "a", "i", "n">>]
      >>,
      <<
        [pos |-> 9383, text |-> <<"/", "/", " ", "C", "o", "d", "e", " ", "g", "e", "n", "e", "r", "a", "t", "e", "d", " ", "b", "y", " ", "t", "o", "o", "l", ".", " ", "D", "O", " ", "N", "O", "T", " ", "E", "D", "I", "T", ".">>]
      >>
    >>,
    nodes |-> <<
      (*  1 *) Node("File", 9300, 0, "", "", <<2, 3, 6>>),
      (*  2 *) Node("Ident", 9308, 0, "late", "", <<>>),
      (*  3 *) Node("GenDecl", 9314, 0, "import", "", <<4, 5>>),
      (*  4 *) Node("ImportSpec", 9324, 0, <<"\"", "e", "r", "r", "o", "r", "s", "\"">>, "", <<>>),
      (*  5 *) Node("ImportSpec", 9334, 0, <<"\"", "f", "m", "t", "\"">>, "", <<>>),
      (*  6 *) Node("FuncDecl", 9343, 0, "D", "", <<7, 8>>),
      (*  7 *) Node("Ident", 9348, 0, "D", "", <<>>),
      (*  8 *) Node("BlockStmt", 9358, 0, "", "", <<9, 18>>),
      (*  9 *) Node("IfStmt", 9371, 0, "", "", <<10, 11>>),
      (* 10 *) Node("Ident", 9374, 0, "true", "", <<>>),
      (* 11 *) Node("BlockStmt", 9379, 0, "", "", <<12>>),
      (* 12 *) Node("ReturnStmt", 9425, 0, "", "", <<13>>),
      (* 13 *) Node("CallExpr", 9432, 0, "", "", <<14, 17>>),
      (* 14 *) Node("SelectorExpr", 9432, 0, "", "", <<15, 16>>),
      (* 15 *) Node("Ident", 9432, 0, "fmt", "package fmt", <<>>),
      (* 16 *) Node("Ident", 9436, 0, "Errorf", "", <<>>),
      (* 17 *) Node("BasicLit", 9443, 0, "\"d\"", "", <<>>),
      (* 18 *) Node("ReturnStmt", 9452, 0, "", "", <<19>>),
      (* 19 *) Node("CallExpr", 9459, 0, "", "", <<20, 23>>),
      (* 20 *) Node("SelectorExpr", 9459, 0, "", "", <<21, 22>>),
      (* 21 *) Node("Ident", 9459, 0, "errors", "package errors", <<>>),
      (* 22 *) Node("Ident", 9466, 0, "New", "", <<>>),
      (* 23 *) Node("BasicLit", 9470, 0, "\"d\"", "", <<>>)
    >> ]

\* nested.go:
\*     package late
\*
\*     type Outer struct {
\*         // Inner is documented.
\*         Inner struct {
\*             // Deep is documented.
\*             Deep int
\*         }
\*     }
\*
\*     type Iface interface {
\*         // M is documented.
\*         M()
\*     }
\*
\*     var (
\*         // W is documented.
\*         W = 1
\*     )
\*
\*     func Body() {
\*         // L is documented.
\*         var L int
\*         // Local is documented.
\*         type Local struct {
\*             // X is documented.
\*             X int
\*         }
\*         //! K is documented.
\*         const K = 1
\*         // loose
\*         _ = L
\*     }
FileNested ==
  [ name |-> "nested.go", base |-> 9600, size |-> 385,
    lines |-> <<0, 13, 14, 34, 59, 75, 100, 111, 114, 116, 117, 140, 161, 166, 168, 169, 175, 196, 203, 205, 206, 220, 241, 252, 277, 298, 320, 328, 331, 353, 366, 376, 383>>,
    doc |-> 0,
    imports |-> <<>>,
    comments |-> <<
      <<
        [pos |-> 9635, text |-> <<"/", "/", " ", "I", "n", "n", "e", "r", " ", "i", "s", " ", "d", "o", "c", "u", "m", "e", "n", "t", "e", "d", ".">>]
      >>,
      <<
        [pos |-> 9677, text |-> <<"/", "/", " ", "D", "e", "e", "p", " ", "i", "s", " ", "d", "o", "c", "u", "m", "e", "n", "t", "e", "d", ".">>]
      >>,
      <<
        [pos |-> 9741, text |-> <<"/", "/", " ", "M", " ", "i", "s", " ", "d", "o", "c", "u", "m", "e", "n", "t", "e", "d", ".">>]
      >>,
      <<
        [pos |-> 9776, text |-> <<"/", "/", " ", "W", " ", "i", "s", " ", "d", "o", "c", "u", "m", "e", "n", "t", "e", "d", ".">>]
      >>,
      <<
        [pos |-> 9821, text |-> <<"/", "/", " ", "L", " ", "i", "s", " ", "d", "o", "c", "u", "m", "e", "n", "t", "e", "d", ".">>]
      >>,
      <<
        [pos |-> 9853, text |-> <<"/", "/", " ", "L", "o", "c", "a", "l", " ", "i", "s", " ", "d", "o", "c", "u", "m", "e", "n", "t", "e", "d", ".">>]
      >>,
      <<
        [pos |-> 9900, text |-> <<"/", "/", " ", "X", " ", "i", "s", " ", "d", "o", "c", "u", "m", "e", "n", "t", "e", "d", ".">>]
      >>,
      <<
        [pos |-> 9932, text |-> <<"/", "/", "!", " ", "K", " ", "i", "s", " ", "d", "o", "c", "u", "m", "e", "n", "t", "e", "d", ".">>]
      >>,
      <<
        [pos |-> 9967, text |-> <<"/", "/", " ", "l", "o", "o", "s", "e">>]
      >>
    >>,
    nodes |-> <<
      (*  1 *) Node("File", 9600, 0, "", "", <<2, 3, 15, 24, 28>>),
      (*  2 *) Node("Ident", 9608, 0, "late", "", <<>>),
      (*  3 *) Node("GenDecl", 9614, 0, "type", "", <<4>>),
      (*  4 *) Node("TypeSpec", 9619, 0, "Outer", "", <<5, 6>>),
      (*  5 *) Node("Ident", 9619, 0, "Outer", "", <<>>),
      (*  6 *) Node("StructType", 9625, 0, "", "", <<7>>),
      (*  7 *) Node("FieldList", 9632, 0, "", "", <<8>>),
      (*  8 *) Node("Field", 9660, 1, "", "", <<9, 10>>),
      (*  9 *) Node("Ident", 9660, 0, "Inner", "", <<>>),
      (* 10 *) Node("StructType", 9666, 0, "", "", <<11>>),
      (* 11 *) Node("FieldList", 9673, 0, "", "", <<12>>),
      (* 12 *) Node("Field", 9702, 2, "", "", <<13, 14>>),
      (* 13 *) Node("Ident", 9702, 0, "Deep", "", <<>>),
      (* 14 *) Node("Ident", 9707, 0, "int", "", <<>>),
      (* 15 *) Node("GenDecl", 9717, 0, "type", "", <<16>>),
      (* 16 *) Node("TypeSpec", 9722, 0, "Iface", "", <<17, 18>>),
      (* 17 *) Node("Ident", 9722, 0, "Iface", "", <<>>),
      (* 18 *) Node("InterfaceType", 9728, 0, "", "", <<19>>),
      (* 19 *) Node("FieldList", 9738, 0, "", "", <<20>>),
      (* 20 *) Node("Field", 9762, 3, "", "", <<21, 22>>),
      (* 21 *) Node("Ident", 9762, 0, "M", "", <<>>),
      (* 22 *) Node("FuncType", 9763, 0, "", "", <<23>>),
      (* 23 *) Node("FieldList", 9763, 0, "", "", <<>>),
      (* 24 *) Node("GenDecl", 9769, 0, "var", "", <<25>>),
      (* 25 *) Node("ValueSpec", 9797, 4, "", "", <<26, 27>>),
      (* 26 *) Node("Ident", 9797, 0, "W", "", <<>>),
      (* 27 *) Node("BasicLit", 9801, 0, "1", "", <<>>),
      (* 28 *) Node("FuncDecl", 9806, 0, "Body", "", <<29, 30, 32>>),
      (* 29 *) Node("Ident", 9811, 0, "Body", "", <<>>),
      (* 30 *) Node("FuncType", 9806, 0, "", "", <<31>>),
      (* 31 *) Node("FieldList", 9815, 0, "", "", <<>>),
      (* 32 *) Node("BlockStmt", 9818, 0, "", "", <<33, 38, 47, 52>>),
      (* 33 *) Node("DeclStmt", 9842, 0, "", "", <<34>>),
      (* 34 *) Node("GenDecl", 9842, 5, "var", "", <<35>>),
      (* 35 *) Node("ValueSpec", 9846, 0, "", "", <<36, 37>>),
      (* 36 *) Node("Ident", 9846, 0, "L", "", <<>>),
      (* 37 *) Node("Ident", 9848, 0, "int", "", <<>>),
      (* 38 *) Node("DeclStmt", 9878, 0, "", "", <<39>>),
      (* 39 *) Node("GenDecl", 9878, 6, "type", "", <<40>>),
      (* 40 *) Node("TypeSpec", 9883, 0, "Local", "", <<41, 42>>),
      (* 41 *) Node("Ident", 9883, 0, "Local", "", <<>>),
      (* 42 *) Node("StructType", 9889, 0, "", "", <<43>>),
      (* 43 *) Node("FieldList", 9896, 0, "", "", <<44>>),
      (* 44 *) Node("Field", 9922, 7, "", "", <<45, 46>>),
      (* 45 *) Node("Ident", 9922, 0, "X", "", <<>>),
      (* 46 *) Node("Ident", 9924, 0, "int", "", <<>>),
      (* 47 *) Node("DeclStmt", 9954, 0, "", "", <<48>>),
      (* 48 *) Node("GenDecl", 9954, 8, "const", "", <<49>>),
      (* 49 *) Node("ValueSpec", 9960, 0, "", "", <<50, 51>>),
      (* 50 *) Node("Ident", 9960, 0, "K", "", <<>>),
      (* 51 *) Node("BasicLit", 9964, 0, "1", "", <<>>),
      (* 52 *) Node("AssignStmt", 9977, 0, "", "", <<53, 54>>),
      (* 53 *) Node("Ident", 9977, 0, "_", "", <<>>),
      (* 54 *) Node("Ident", 9981, 0, "L", "", <<>>)
    >> ]

\* Every parsed file of the corpus.
Files ==
    {FileErrs, FileDocs, FileGen, FileGen2, FileHand, FileClean, FileBroken, FileNotes, FileAlias,
     FileChain, FileNear, FileDeep, FileNested}

\* The file a handle names.
FileOf(name) == CHOOSE f \in Files : f.name = name

\* A loaded packages.Package: Syntax is its parsed files in order, Errors
\* whether its Errors list is non-empty (here: a file failed to parse).
Package(name, syntax, errors) == [name |-> name, syntax |-> syntax, errors |-> errors]

\* The units packages.Load can return.
Units ==
    { Package("errs",   <<"errs.go">>,            FALSE),
      Package("docs",   <<"docs.go">>,            FALSE),
      Package("gen",    <<"gen.go">>,             FALSE),
      Package("mixed",  <<"gen2.go", "hand.go">>, FALSE),
      Package("clean",  <<"clean.go">>,           FALSE),
      Package("broken", <<"broken.go">>,          TRUE),
      Package("notes",  <<"notes.go">>,           FALSE),
      Package("alias",  <<"alias.go">>,           FALSE),
      Package("chain",  <<"chain.go">>,           FALSE),
      Package("late",   <<"near.go", "deep.go", "nested.go">>, FALSE) }

\* The unit a handle names.
UnitOf(name) == CHOOSE u \in Units : u.name = name

\* token.FileSet.Position of a unit's file set, rendered as file:line:column.
\* The line is the last one of the file's line table that starts at or before
\* the offset, the column the distance from that line's start, from 1.
Position(unit, pos) ==
    LET f    == CHOOSE g \in {FileOf(n) : n \in Range(UnitOf(unit).syntax)} :
                    g.base <= pos /\ pos <= g.base + g.size
        off  == pos - f.base
        line == CHOOSE l \in 1..Len(f.lines) :
                    /\ f.lines[l] <= off
                    /\ l < Len(f.lines) => off < f.lines[l + 1]
    IN  f.name \o ":" \o ToString(line) \o ":" \o ToString(off - f.lines[line] + 1)

-----------------------------------------------------------------------------
(* pkg/analysis: Message and Analyzer *)

\* An analysis.Diagnostic as pass.Reportf(pos, "%s", m) builds it.
MessageReport(m, pos) == <<[pos |-> pos, message |-> m]>>

-----------------------------------------------------------------------------
(* ast.Inspect *)

RECURSIVE Inspect(_, _)
RECURSIVE InspectList(_, _)
\* Mutant of Inspect: the callback returns false at a call, whose function
\* and arguments are then not visited.
InspectNotIntoCalls(file, i) ==
    IF file.nodes[i].kind = "CallExpr" THEN <<i>>
    ELSE <<i>> \o InspectList(file, file.nodes[i].kids)

\* The nodes ast.Inspect visits from node i, in order, when its callback
\* returns true at every node (both analyzers' callbacks do).
Inspect(file, i) == <<i>> \o InspectList(file, file.nodes[i].kids)

\* The nodes visited under a list of children.
InspectList(file, kids) ==
    IF kids = <<>> THEN <<>>
    ELSE Inspect(file, Head(kids)) \o InspectList(file, Tail(kids))

-----------------------------------------------------------------------------
(* pkg/analysis/nocomments *)

MsgNoComments == "write self-commenting code; use //! prefix if truly important"

NocommentsAnalyzer ==
    [ Name     |-> "nocomments",
      Doc      |-> "disallows comments except godoc and //! for important notes",
      Messages |-> <<MsgNoComments>> ]

\* The positions of the comments of comment group g of a file (none for nil).
GroupPositions(file, g) ==
    IF g = 0 THEN {} ELSE {file.comments[g][k].pos : k \in 1..Len(file.comments[g])}

\* Mutant of DocKinds: the type switch has a case for an ImportSpec too.
DocKindsWithImportSpec ==
    {"GenDecl", "FuncDecl", "TypeSpec", "ValueSpec", "Field", "ImportSpec"}

\* The node types whose Doc collectDocPositions' type switch reads.
DocKinds == {"GenDecl", "FuncDecl", "TypeSpec", "ValueSpec", "Field"}

\* Mutant of DocOfNode: the type switch lacks the case for a Field.
DocOfNodeNoField(n) == IF n.kind \in DocKinds \ {"Field"} THEN n.doc ELSE 0

\* The Doc group the callback of collectDocPositions finds at a node.
DocOfNode(n) == IF n.kind \in DocKinds THEN n.doc ELSE 0

\* Mutant of CollectDocPositions: a range over file.Decls in place of
\* ast.Inspect, so that only the top-level declarations are looked at.
CollectDocPositionsTopLevel(file) ==
    LET visited == <<1>> \o file.nodes[1].kids
    IN  GroupPositions(file, file.doc)
          \cup UNION {GroupPositions(file, DocOfNode(file.nodes[visited[k]])) :
                        k \in 1..Len(visited)}

\* collectDocPositions: the positions of file.Doc's comments and of the Doc
\* comments of every node ast.Inspect visits.
CollectDocPositions(file) ==
    LET visited == Inspect(file, 1)
    IN  GroupPositions(file, file.doc)
          \cup UNION {GroupPositions(file, DocOfNode(file.nodes[visited[k]])) :
                        k \in 1..Len(visited)}

\* Mutant of IsAllowed: the prefix is matched after a space that follows the
\* comment opener is dropped.
IsAllowedTrimmed(c, docPositions) ==
    LET text    == c.text
        trimmed == IF Len(text) >= 3 /\ text[3] = " "
                   THEN SubSeq(text, 1, 2) \o SubSeq(text, 4, Len(text))
                   ELSE text
    IN  \/ c.pos \in docPositions
        \/ HasPrefix(trimmed, <<"/", "/", "!">>)
        \/ HasPrefix(trimmed, <<"/", "*", "!">>)

\* Mutant of IsAllowed: the block form of the prefix is not tested.
IsAllowedLineNoteOnly(c, docPositions) ==
    \/ c.pos \in docPositions
    \/ HasPrefix(c.text, <<"/", "/", "!">>)

\* isAllowed
IsAllowed(c, docPositions) ==
    \/ c.pos \in docPositions
    \/ HasPrefix(c.text, <<"/", "/", "!">>)
    \/ HasPrefix(c.text, <<"/", "*", "!">>)

\* The comments of a file in the order of the two range loops of run.
CommentsOf(file) == Flatten(file.comments)

\* Mutant of NocommentsFile: one report for a comment group that holds a
\* comment that is not allowed, at the group's first comment.
NocommentsFilePerGroup(file) ==
    LET docPositions == CollectDocPositions(file)
    IN  Flatten([g \in 1..Len(file.comments) |->
                    IF \A k \in 1..Len(file.comments[g]) :
                           IsAllowed(file.comments[g][k], docPositions)
                    THEN <<>>
                    ELSE MessageReport(MsgNoComments, file.comments[g][1].pos)])

\* nocomments.run on one file: the diagnostics in the order reported.
NocommentsFile(file) ==
    LET docPositions == CollectDocPositions(file)
        cs           == CommentsOf(file)
    IN  Flatten([k \in 1..Len(cs) |->
                    IF IsAllowed(cs[k], docPositions) THEN <<>>
                    ELSE MessageReport(MsgNoComments, cs[k].pos)])

\* nocomments.run: the diagnostics reported on pass.Files, in order.
NocommentsRun(passFiles) ==
    Flatten([k \in 1..Len(passFiles) |-> NocommentsFile(FileOf(passFiles[k]))])

-----------------------------------------------------------------------------
(* pkg/analysis/pkgerrors *)

MsgFmtErrorf == "use github.com/pkg/errors errors.WithStack by default and errors.Wrap only if it will be unwrapped"

PkgerrorsAnalyzer ==
    [ Name     |-> "pkgerrors",
      Doc      |-> "checks that github.com/pkg/errors is used instead of the standard errors package or fmt.Errorf",
      Messages |-> <<MsgFmtErrorf>> ]

\* The test of the import loop: imp.Path.Value is the seven characters of the
\* interpreted string literal "errors", quotes included.
IsErrorsImport(imp) == imp.name = <<"\"", "e", "r", "r", "o", "r", "s", "\"">>

\* Mutant of PkgerrorsImports: an import is reported with a text of its own,
\* which the Messages of the analyzer do not list.
PkgerrorsImportsOwnText(file) ==
    Flatten([k \in 1..Len(file.imports) |->
                LET imp == file.nodes[file.imports[k]]
                IN  IF IsErrorsImport(imp)
                    THEN MessageReport("use github.com/pkg/errors instead of the standard errors package",
                                       imp.pos)
                    ELSE <<>>])

\* The import loop of run on one file.
PkgerrorsImports(file) ==
    Flatten([k \in 1..Len(file.imports) |->
                LET imp == file.nodes[file.imports[k]]
                IN  IF IsErrorsImport(imp) THEN MessageReport(MsgFmtErrorf, imp.pos)
                    ELSE <<>>])

\* Mutant of IsFmtErrorfCall: the name of X is not compared.
IsAnyErrorfCall(file, n) ==
    /\ n.kind = "CallExpr"
    /\ LET fun == file.nodes[n.kids[1]]
       IN  /\ fun.kind = "SelectorExpr"
           /\ file.nodes[fun.kids[1]].kind = "Ident"
           /\ file.nodes[fun.kids[2]].name = "Errorf"

\* The test the ast.Inspect callback makes at a node: a CallExpr whose Fun is a
\* SelectorExpr whose X is an Ident named fmt and whose Sel is named Errorf.
IsFmtErrorfCall(file, n) ==
    /\ n.kind = "CallExpr"
    /\ LET fun == file.nodes[n.kids[1]]
       IN  /\ fun.kind = "SelectorExpr"
           /\ LET x   == file.nodes[fun.kids[1]]
                  sel == file.nodes[fun.kids[2]]
              IN  /\ x.kind = "Ident"
                  /\ x.name = "fmt"
                  /\ sel.name = "Errorf"

\* The ast.Inspect pass of run on one file.
PkgerrorsCalls(file) ==
    LET visited == Inspect(file, 1)
    IN  Flatten([k \in 1..Len(visited) |->
                    LET n == file.nodes[visited[k]]
                    IN  IF IsFmtErrorfCall(file, n) THEN MessageReport(MsgFmtErrorf, n.pos)
                        ELSE <<>>])

\* Mutant of PkgerrorsRun: a variable of the package remembers that the
\* message was reported, and a later Run in the same call returns at once.
PkgerrorsRunRemembering(passFiles) ==
    IF \E r \in Range(reported) : r.message = MsgFmtErrorf
    THEN <<>>
    ELSE Flatten([k \in 1..Len(passFiles) |->
                    PkgerrorsImports(FileOf(passFiles[k])) \o PkgerrorsCalls(FileOf(passFiles[k]))])

\* pkgerrors.run: the diagnostics reported on pass.Files, in order.
PkgerrorsRun(passFiles) ==
    Flatten([k \in 1..Len(passFiles) |->
                PkgerrorsImports(FileOf(passFiles[k])) \o PkgerrorsCalls(FileOf(passFiles[k]))])

-----------------------------------------------------------------------------
(* cmd/lint.go: the generated-file filter *)

\* Mutant of IsGenerated: the suffix is tested with HasPrefix.
IsGeneratedSuffixAsPrefix(file) ==
    \E g \in 1..Len(file.comments) : \E k \in 1..Len(file.comments[g]) :
        /\ HasPrefix(file.comments[g][k].text,
                     <<"/", "/", " ", "C", "o", "d", "e", " ", "g", "e", "n", "e", "r", "a", "t", "e", "d">>)
        /\ HasPrefix(file.comments[g][k].text,
                     <<"D", "O", " ", "N", "O", "T", " ", "E", "D", "I", "T", ".">>)

\* Mutant of IsGenerated: only the first comment group of the file, where a
\* header stands, is searched.
IsGeneratedHeaderOnly(file) ==
    /\ Len(file.comments) >= 1
    /\ \E k \in 1..Len(file.comments[1]) :
          /\ HasPrefix(file.comments[1][k].text,
                       <<"/", "/", " ", "C", "o", "d", "e", " ", "g", "e", "n", "e", "r", "a", "t", "e", "d">>)
          /\ HasSuffix(file.comments[1][k].text,
                       <<"D", "O", " ", "N", "O", "T", " ", "E", "D", "I", "T", ".">>)

\* isGenerated: some comment of the file starts with "// Code generated" and
\* ends with "DO NOT EDIT.".
IsGenerated(file) ==
    \E g \in 1..Len(file.comments) : \E k \in 1..Len(file.comments[g]) :
        /\ HasPrefix(file.comments[g][k].text,
                     <<"/", "/", " ", "C", "o", "d", "e", " ", "g", "e", "n", "e", "r", "a", "t", "e", "d">>)
        /\ HasSuffix(file.comments[g][k].text,
                     <<"D", "O", " ", "N", "O", "T", " ", "E", "D", "I", "T", ".">>)

\* Mutant of FilterGenerated: a unit with a generated file loses all its
\* files.
FilterGeneratedWholeUnit(syntax) ==
    IF \E k \in 1..Len(syntax) : IsGenerated(FileOf(syntax[k])) THEN <<>> ELSE syntax

\* filterGenerated: the files that are not generated, in their order.
FilterGenerated(syntax) == SelectSeq(syntax, LAMBDA n : ~IsGenerated(FileOf(n)))

-----------------------------------------------------------------------------
(* cmd/lint.go: lintCmd.RunE and runAnalyzers *)

\* The registry RunE builds.
Registry == <<"pkgerrors", "nocomments">>

\* Analyzers whose Run fails, handed to runAnalyzers by a caller other than
\* RunE: one whose Run returns an error, one whose Run panics.
FailingAnalyzers == {"failing", "panicking"}

\* The analyzer a handle names.
AnalyzerOf(name) ==
    CASE name = "pkgerrors"  -> PkgerrorsAnalyzer
      [] name = "nocomments" -> NocommentsAnalyzer
      [] OTHER -> [Name |-> name, Doc |-> "", Messages |-> <<>>]

\* The diagnostics a.Run(pass) reports, in order.
RunOf(name, passFiles) ==
    CASE name = "pkgerrors"  -> PkgerrorsRun(passFiles)
      [] name = "nocomments" -> NocommentsRun(passFiles)
      [] OTHER -> <<>>

\* Mutant of ListBlock: the Messages are not printed.
ListBlockNameOnly(a) == <<a.Name \o ": " \o a.Doc>>

\* The lines list mode prints for one analyzer: "name: doc", then one line
\* "  - message" for each of its Messages.
ListBlock(a) ==
    <<a.Name \o ": " \o a.Doc>> \o [m \in 1..Len(a.Messages) |-> "  - " \o a.Messages[m]]

\* The lines list mode prints for the registry.
ListOutput(as) == Flatten([k \in 1..Len(as) |-> ListBlock(AnalyzerOf(as[k]))])

\* The line the Report closure of a Pass writes to os.Stderr.
DiagLine(unit, d, ruleName) ==
    Position(unit, d.pos) \o ": " \o d.message \o " (" \o ruleName \o ")"

\* The line runAnalyzers writes when packages.Load returns an error.
LoadFailureLine == "failed to load packages: " \o "err"

\* Mutant of LoadFailureCount: a failed load returns the counter, which
\* nothing has incremented, as a run that found nothing does.
LoadFailureReturnsIssues == issues

\* "return 1" after packages.Load returned an error.
LoadFailureCount == 1

\* Mutant of CountReport: the counter is set, not incremented.
CountReportOnce(n) == 1

\* Mutant of VarIssues: the counter is a variable of the package, which keeps
\* what an earlier call left in it.
VarIssuesKept(left) == left

\* "var issues int" in runAnalyzers: a new variable with the zero value,
\* whatever an earlier call left in its own.
VarIssues(left) == 0

\* issues++ in the Report closure.
CountReport(n) == n + 1

\* Mutant of HasErrorsAfterAnalyzers: the flag is assigned, losing
\* golangci-lint's failure.
HasErrorsFromAnalyzersOnly(h, n) == n > 0

\* RunE's hasErrors after runAnalyzers returned n.
HasErrorsAfterAnalyzers(h, n) == h \/ n > 0

\* The results packages.Load can return without an error.
LoadResults == InjectiveSeqs({u.name : u \in Units}, MaxUnits)

\* The directories findProjectRoot can return.
ProjectRoots == {"/", "/src/app"}

\* filepath.Join(root, ".golangci.yml")
ConfigFile(root) == IF root = "/" THEN "/.golangci.yml" ELSE root \o "/" \o ".golangci.yml"

\* rootCmd.RunE has not been entered.
NoRoot == [pc |-> "none"]

\* updateCmd.RunE has not been entered.
NoUpdate == [pc |-> "none"]

Init ==
    /\ pc = "RunE"
    /\ listAnalyzers \in BOOLEAN
    /\ analyzers = Registry
    /\ stdout = <<>>
    /\ stderr = <<>>
    /\ effects = {}
    /\ golangciErr = FALSE
    /\ hasErrors = FALSE
    /\ loadErr = FALSE
    /\ pkgs = <<>>
    /\ pkgIdx = 0
    /\ files = <<>>
    /\ aIdx = 0
    /\ pending = <<>>
    /\ issues = 0
    /\ ret = -1
    /\ passes = <<>>
    /\ reported = <<>>
    /\ faults = <<>>
    /\ exitCode = -1
    /\ prior = <<>>
    /\ workers = <<>>
    /\ rootCmd = NoRoot
    /\ updateCmd = NoUpdate

\* RunE with --list: print every analyzer's block and return nil.
ListRules ==
    /\ pc = "RunE"
    /\ listAnalyzers
    /\ stdout' = stdout \o ListOutput(analyzers)
    /\ pc' = "done"
    /\ exitCode' = 0
    /\ UNCHANGED <<listAnalyzers, analyzers, stderr, effects, golangciErr, hasErrors, loadErr,
                   pkgs, pkgIdx, files, aIdx, pending, issues, ret, passes, reported, faults,
                   prior, workers, rootCmd, updateCmd>>

\* exec.LookPath("golangci-lint")
LookPath ==
    /\ pc = "RunE"
    /\ ~listAnalyzers
    /\ \E found \in BOOLEAN : pc' = IF found THEN "config" ELSE "install"
    /\ effects' = effects \cup {"lookpath"}
    /\ UNCHANGED <<listAnalyzers, analyzers, stdout, stderr, golangciErr, hasErrors, loadErr,
                   pkgs, pkgIdx, files, aIdx, pending, issues, ret, passes, reported, faults,
                   exitCode,
                   prior, workers, rootCmd, updateCmd>>

\* go install golangci-lint; RunE returns the error if it fails.
Install ==
    /\ pc = "install"
    /\ effects' = effects \cup {"install"}
    /\ \E ok \in BOOLEAN :
          /\ pc' = IF ok THEN "config" ELSE "done"
          /\ exitCode' = IF ok THEN exitCode ELSE 1
    /\ UNCHANGED <<listAnalyzers, analyzers, stdout, stderr, golangciErr, hasErrors, loadErr,
                   pkgs, pkgIdx, files, aIdx, pending, issues, ret, passes, reported, faults,
                   prior, workers, rootCmd, updateCmd>>

\* ensureLintConfig: no go.mod above the working directory, the config file
\* exists, writing it fails, or it is written and announced.
EnsureLintConfig ==
    /\ pc = "config"
    /\ \E outcome \in {"noroot", "exists", "writefail", "created"} : \E root \in ProjectRoots :
          /\ effects' = effects \cup (IF outcome = "created" THEN {"writeconfig"} ELSE {})
          /\ stdout' = IF outcome = "created"
                       THEN Append(stdout, "Created " \o ConfigFile(root) \o " with default configuration")
                       ELSE stdout
          /\ pc' = IF outcome \in {"noroot", "writefail"} THEN "done" ELSE "golangci"
          /\ exitCode' = IF outcome \in {"noroot", "writefail"} THEN 1 ELSE exitCode
    /\ UNCHANGED <<listAnalyzers, analyzers, stderr, golangciErr, hasErrors, loadErr,
                   pkgs, pkgIdx, files, aIdx, pending, issues, ret, passes, reported, faults,
                   prior, workers, rootCmd, updateCmd>>

\* Mutant of Golangci: RunE returns when golangci-lint fails.
GolangciReturnsOnFailure ==
    /\ pc = "golangci"
    /\ effects' = effects \cup {"golangci"}
    /\ \E err \in BOOLEAN :
          /\ golangciErr' = err
          /\ hasErrors' = IF err THEN TRUE ELSE hasErrors
          /\ pc' = IF err THEN "done" ELSE "load"
          /\ exitCode' = IF err THEN 1 ELSE exitCode
    /\ UNCHANGED <<listAnalyzers, analyzers, stdout, stderr, loadErr,
                   pkgs, pkgIdx, files, aIdx, pending, issues, ret, passes, reported, faults,
                   prior, workers, rootCmd, updateCmd>>

\* golangci-lint run ./...: a failure sets hasErrors.
Golangci ==
    /\ pc = "golangci"
    /\ effects' = effects \cup {"golangci"}
    /\ \E err \in BOOLEAN :
          /\ golangciErr' = err
          /\ hasErrors' = IF err THEN TRUE ELSE hasErrors
    /\ pc' = "load"
    /\ UNCHANGED <<listAnalyzers, analyzers, stdout, stderr, loadErr,
                   pkgs, pkgIdx, files, aIdx, pending, issues, ret, passes, reported, faults,
                   exitCode,
                   prior, workers, rootCmd, updateCmd>>

\* runAnalyzers: packages.Load returns an error: write it and return 1.
LoadFails ==
    /\ pc = "load"
    /\ effects' = effects \cup {"load"}
    /\ loadErr' = TRUE
    /\ stderr' = Append(stderr, LoadFailureLine)
    /\ ret' = LoadFailureCount
    /\ pc' = "analyzed"
    /\ UNCHANGED <<listAnalyzers, analyzers, stdout, golangciErr, hasErrors,
                   pkgs, pkgIdx, files, aIdx, pending, issues, passes, reported, faults,
                   exitCode,
                   prior, workers, rootCmd, updateCmd>>

\* runAnalyzers: packages.Load returns units (a unit that failed to parse
\* among them: Load records that in the unit's Errors and returns no error).
Load ==
    /\ pc = "load"
    /\ effects' = effects \cup {"load"}
    /\ \E ps \in LoadResults : pkgs' = ps
    /\ issues' = VarIssues(issues)
    /\ pkgIdx' = 1
    /\ pc' = "pkgloop"
    /\ UNCHANGED <<listAnalyzers, analyzers, stdout, stderr, golangciErr, hasErrors, loadErr,
                   files, aIdx, pending, ret, passes, reported, faults, exitCode,
                   prior, workers, rootCmd, updateCmd>>

\* The head of the loop over pkgs: filter the unit's files and skip the unit
\* if none is left.
FilterPackage ==
    /\ pc = "pkgloop"
    /\ pkgIdx <= Len(pkgs)
    /\ effects' = effects \cup {"filter"}
    /\ LET kept == FilterGenerated(UnitOf(pkgs[pkgIdx]).syntax)
       IN  /\ files' = kept
           /\ IF Len(kept) = 0 \/ Len(analyzers) = 0
              THEN pkgIdx' = pkgIdx + 1 /\ pc' = "pkgloop" /\ aIdx' = aIdx
              ELSE pkgIdx' = pkgIdx /\ pc' = "analyzers" /\ aIdx' = 1
    /\ UNCHANGED <<listAnalyzers, analyzers, stdout, stderr, golangciErr, hasErrors, loadErr,
                   pkgs, pending, issues, ret, passes, reported, faults, exitCode,
                   prior, workers, rootCmd, updateCmd>>

\* The body of the loop over analyzers: build the Pass and call a.Run.
StartPass ==
    /\ pc = "analyzers"
    /\ passes' = Append(passes, [unit |-> pkgs[pkgIdx], rule |-> analyzers[aIdx], files |-> files])
    /\ pending' = RunOf(analyzers[aIdx], files)
    /\ pc' = "running"
    /\ UNCHANGED <<listAnalyzers, analyzers, stdout, stderr, effects, golangciErr, hasErrors,
                   loadErr, pkgs, pkgIdx, files, aIdx, issues, ret, reported, faults, exitCode,
                   prior, workers, rootCmd, updateCmd>>

\* The Report closure, called by the running analyzer: write the line, count it.
Report ==
    /\ pc = "running"
    /\ pending # <<>>
    /\ stderr' = Append(stderr, DiagLine(pkgs[pkgIdx], Head(pending), AnalyzerOf(analyzers[aIdx]).Name))
    /\ issues' = CountReport(issues)
    /\ reported' = Append(reported, [pass |-> Len(passes), pos |-> Head(pending).pos,
                                     message |-> Head(pending).message])
    /\ pending' = Tail(pending)
    /\ UNCHANGED <<pc, listAnalyzers, analyzers, stdout, effects, golangciErr, hasErrors,
                   loadErr, pkgs, pkgIdx, files, aIdx, ret, passes, faults, exitCode,
                   prior, workers, rootCmd, updateCmd>>

\* Mutant of AfterRun: the loop over analyzers is left after its first
\* iteration.
AfterRunBreaks == aIdx' = aIdx /\ pkgIdx' = pkgIdx + 1 /\ pc' = "pkgloop"

\* The loop variables after a.Run returned (its results are discarded).
AfterRun ==
    IF aIdx < Len(analyzers)
    THEN aIdx' = aIdx + 1 /\ pkgIdx' = pkgIdx /\ pc' = "analyzers"
    ELSE aIdx' = aIdx /\ pkgIdx' = pkgIdx + 1 /\ pc' = "pkgloop"

\* a.Run returns (nil, nil).
RunReturns ==
    /\ pc = "running"
    /\ pending = <<>>
    /\ analyzers[aIdx] \notin FailingAnalyzers
    /\ AfterRun
    /\ UNCHANGED <<listAnalyzers, analyzers, stdout, stderr, effects, golangciErr, hasErrors,
                   loadErr, pkgs, files, pending, issues, ret, passes, reported, faults, exitCode,
                   prior, workers, rootCmd, updateCmd>>

\* a.Run returns an error: "_, _ = a.Run(pass)" drops it.
RunReturnsError ==
    /\ pc = "running"
    /\ analyzers[aIdx] = "failing"
    /\ faults' = Append(faults, [pass |-> Len(passes), kind |-> "error"])
    /\ AfterRun
    /\ UNCHANGED <<listAnalyzers, analyzers, stdout, stderr, effects, golangciErr, hasErrors,
                   loadErr, pkgs, files, pending, issues, ret, passes, reported, exitCode,
                   prior, workers, rootCmd, updateCmd>>

\* a.Run panics: nothing recovers, the process dies with status 2.
RunPanics ==
    /\ pc = "running"
    /\ analyzers[aIdx] = "panicking"
    /\ faults' = Append(faults, [pass |-> Len(passes), kind |-> "panic"])
    /\ pc' = "crashed"
    /\ exitCode' = 2
    /\ UNCHANGED <<listAnalyzers, analyzers, stdout, stderr, effects, golangciErr, hasErrors,
                   loadErr, pkgs, pkgIdx, files, aIdx, pending, issues, ret, passes, reported,
                   prior, workers, rootCmd, updateCmd>>

\* Mutant of ReturnIssues: the loop over pkgs ends one unit early.
ReturnIssuesEarly ==
    /\ pc = "pkgloop"
    /\ pkgIdx >= Len(pkgs)
    /\ ret' = issues
    /\ pc' = "analyzed"
    /\ UNCHANGED <<listAnalyzers, analyzers, stdout, stderr, effects, golangciErr, hasErrors,
                   loadErr, pkgs, pkgIdx, files, aIdx, pending, issues, passes, reported, faults,
                   exitCode, prior, workers, rootCmd, updateCmd>>

\* The loop over pkgs is over: return issues.
ReturnIssues ==
    /\ pc = "pkgloop"
    /\ pkgIdx > Len(pkgs)
    /\ ret' = issues
    /\ pc' = "analyzed"
    /\ UNCHANGED <<listAnalyzers, analyzers, stdout, stderr, effects, golangciErr, hasErrors,
                   loadErr, pkgs, pkgIdx, files, aIdx, pending, issues, passes, reported, faults,
                   exitCode,
                   prior, workers, rootCmd, updateCmd>>

\* RunE after runAnalyzers: os.Exit(1) if hasErrors, else return nil.
CheckIssues ==
    /\ pc = "analyzed"
    /\ hasErrors' = HasErrorsAfterAnalyzers(hasErrors, ret)
    /\ exitCode' = IF hasErrors' THEN 1 ELSE 0
    /\ pc' = "done"
    /\ UNCHANGED <<listAnalyzers, analyzers, stdout, stderr, effects, golangciErr,
                   loadErr, pkgs, pkgIdx, files, aIdx, pending, issues, ret, passes, reported,
                   faults,
                   prior, workers, rootCmd, updateCmd>>

\* The lint command.
Next ==
    \/ ListRules
    \/ LookPath
    \/ Install
    \/ EnsureLintConfig
    \/ Golangci
    \/ LoadFails
    \/ Load
    \/ FilterPackage
    \/ StartPass
    \/ Report
    \/ RunReturns
    \/ ReturnIssues
    \/ CheckIssues

Spec == Init /\ [][Next]_vars

\* A step of StartPass, told by what it does to pc (no other step leads from
\* "analyzers" to "running").
StartsPass == pc = "analyzers" /\ pc' = "running"

\* The command's one goroutine takes its next step as long as it has one.
SpecFair ==
    /\ Spec
    /\ WF_vars(\/ ListRules \/ LookPath \/ Install \/ EnsureLintConfig \/ Golangci
               \/ LoadFails \/ Load \/ FilterPackage \/ Report \/ RunReturns
               \/ ReturnIssues \/ CheckIssues)
    /\ WF_pc(StartsPass)

\* The analyzer lists a caller may hand to runAnalyzers.
EngineAnalyzers ==
    {as \in InjectiveSeqs(Range(Registry) \cup FailingAnalyzers, MaxAnalyzers) : Len(as) > 0}

\* runAnalyzers called on its own, with any list of analyzers.
InitEngine ==
    /\ pc = "load"
    /\ listAnalyzers = FALSE
    /\ analyzers \in EngineAnalyzers
    /\ stdout = <<>>
    /\ stderr = <<>>
    /\ effects = {}
    /\ golangciErr = FALSE
    /\ hasErrors = FALSE
    /\ loadErr = FALSE
    /\ pkgs = <<>>
    /\ pkgIdx = 0
    /\ files = <<>>
    /\ aIdx = 0
    /\ pending = <<>>
    /\ issues = 0
    /\ ret = -1
    /\ passes = <<>>
    /\ reported = <<>>
    /\ faults = <<>>
    /\ exitCode = -1
    /\ prior = <<>>
    /\ workers = <<>>
    /\ rootCmd = NoRoot
    /\ updateCmd = NoUpdate

NextEngine ==
    \/ LoadFails
    \/ Load
    \/ FilterPackage
    \/ StartPass
    \/ Report
    \/ RunReturns
    \/ RunReturnsError
    \/ RunPanics
    \/ ReturnIssues

SpecEngine == InitEngine /\ [][NextEngine]_vars


-----------------------------------------------------------------------------
(* runAnalyzers called twice by one process *)

\* The orders of the elements of a sequence.
Orders(s) == {p \in InjectiveSeqs(Range(s), Len(s)) : Len(p) = Len(s)}

\* The lists of analyzers of the registry a caller can hand to runAnalyzers.
RegistryLists == {as \in InjectiveSeqs(Range(Registry), Len(Registry)) : Len(as) > 0}

\* runAnalyzers called on its own with analyzers of the registry.
InitTwice ==
    /\ pc = "load"
    /\ listAnalyzers = FALSE
    /\ analyzers \in RegistryLists
    /\ stdout = <<>>
    /\ stderr = <<>>
    /\ effects = {}
    /\ golangciErr = FALSE
    /\ hasErrors = FALSE
    /\ loadErr = FALSE
    /\ pkgs = <<>>
    /\ pkgIdx = 0
    /\ files = <<>>
    /\ aIdx = 0
    /\ pending = <<>>
    /\ issues = 0
    /\ ret = -1
    /\ passes = <<>>
    /\ reported = <<>>
    /\ faults = <<>>
    /\ exitCode = -1
    /\ prior = <<>>
    /\ workers = <<>>
    /\ rootCmd = NoRoot
    /\ updateCmd = NoUpdate

\* runAnalyzers has returned and is called again over the unchanged source,
\* with the same analyzers in some order: packages.Load returns the same
\* units, in some order. What the first call returned and its history are
\* kept in prior; the histories start again.
CallAgain ==
    /\ pc = "analyzed"
    /\ ~loadErr
    /\ prior = <<>>
    /\ prior' = <<[ret |-> ret, analyzers |-> analyzers, pkgs |-> pkgs,
                   passes |-> passes, reported |-> reported]>>
    /\ \E as \in Orders(analyzers) : analyzers' = as
    /\ \E ps \in Orders(pkgs) : pkgs' = ps
    /\ issues' = VarIssues(issues)
    /\ pkgIdx' = 1
    /\ ret' = -1
    /\ passes' = <<>>
    /\ reported' = <<>>
    /\ pc' = "pkgloop"
    /\ UNCHANGED <<listAnalyzers, stdout, stderr, effects, golangciErr, hasErrors, loadErr,
                   files, aIdx, pending, faults, exitCode, workers, rootCmd, updateCmd>>

NextTwice ==
    \/ Load
    \/ FilterPackage
    \/ StartPass
    \/ Report
    \/ RunReturns
    \/ ReturnIssues
    \/ CallAgain

SpecTwice == InitTwice /\ [][NextTwice]_vars

-----------------------------------------------------------------------------
(* The body of runAnalyzers' loop over pkgs, run by one goroutine per unit *)

\* runAnalyzers called on its own with the registry.
InitParallel ==
    /\ pc = "load"
    /\ listAnalyzers = FALSE
    /\ analyzers = Registry
    /\ stdout = <<>>
    /\ stderr = <<>>
    /\ effects = {}
    /\ golangciErr = FALSE
    /\ hasErrors = FALSE
    /\ loadErr = FALSE
    /\ pkgs = <<>>
    /\ pkgIdx = 0
    /\ files = <<>>
    /\ aIdx = 0
    /\ pending = <<>>
    /\ issues = 0
    /\ ret = -1
    /\ passes = <<>>
    /\ reported = <<>>
    /\ faults = <<>>
    /\ exitCode = -1
    /\ prior = <<>>
    /\ workers = <<>>
    /\ rootCmd = NoRoot
    /\ updateCmd = NoUpdate

\* The loop over pkgs hands each unit to a goroutine of its own and waits.
Spawn ==
    /\ pc = "pkgloop"
    /\ workers = <<>>
    /\ pkgs # <<>>
    /\ workers' = [w \in 1..Len(pkgs) |->
                      [pc |-> "filter", unit |-> pkgs[w], files |-> <<>>, aIdx |-> 0,
                       pending |-> <<>>, pass |-> 0, tmp |-> 0]]
    /\ pc' = "wait"
    /\ UNCHANGED <<listAnalyzers, analyzers, stdout, stderr, effects, golangciErr, hasErrors,
                   loadErr, pkgs, pkgIdx, files, aIdx, pending, issues, ret, passes, reported,
                   faults, exitCode, prior, rootCmd, updateCmd>>

\* A goroutine filters its unit's files and leaves if none is left.
WorkerFilter(w) ==
    /\ workers[w].pc = "filter"
    /\ LET kept == FilterGenerated(UnitOf(workers[w].unit).syntax)
       IN  workers' = [workers EXCEPT ![w].files = kept,
                                      ![w].aIdx  = 1,
                                      ![w].pc    = IF Len(kept) = 0 THEN "exit" ELSE "pass"]
    /\ UNCHANGED <<pc, listAnalyzers, analyzers, stdout, stderr, effects, golangciErr,
                   hasErrors, loadErr, pkgs, pkgIdx, files, aIdx, pending, issues, ret, passes,
                   reported, faults, exitCode, prior, rootCmd, updateCmd>>

\* A goroutine builds the Pass of its next analyzer and calls a.Run.
WorkerStartPass(w) ==
    /\ workers[w].pc = "pass"
    /\ passes' = Append(passes, [unit |-> workers[w].unit, rule |-> analyzers[workers[w].aIdx],
                                 files |-> workers[w].files])
    /\ workers' = [workers EXCEPT ![w].pending = RunOf(analyzers[workers[w].aIdx], workers[w].files),
                                  ![w].pass    = Len(passes) + 1,
                                  ![w].pc      = "run"]
    /\ UNCHANGED <<pc, listAnalyzers, analyzers, stdout, stderr, effects, golangciErr,
                   hasErrors, loadErr, pkgs, pkgIdx, files, aIdx, pending, issues, ret,
                   reported, faults, exitCode, prior, rootCmd, updateCmd>>

\* The Report closure in a goroutine: the line is written.
WorkerReport(w) ==
    /\ workers[w].pc = "run"
    /\ workers[w].pending # <<>>
    /\ LET d == Head(workers[w].pending)
       IN  /\ stderr' = Append(stderr, DiagLine(workers[w].unit, d,
                                                AnalyzerOf(analyzers[workers[w].aIdx]).Name))
           /\ reported' = Append(reported, [pass |-> workers[w].pass, pos |-> d.pos,
                                            message |-> d.message])
    /\ workers' = [workers EXCEPT ![w].pending = Tail(workers[w].pending), ![w].pc = "read"]
    /\ UNCHANGED <<pc, listAnalyzers, analyzers, stdout, effects, golangciErr, hasErrors,
                   loadErr, pkgs, pkgIdx, files, aIdx, pending, issues, ret, passes, faults,
                   exitCode, prior, rootCmd, updateCmd>>

\* issues++ in a goroutine, first half: the captured variable is read.
WorkerRead(w) ==
    /\ workers[w].pc = "read"
    /\ workers' = [workers EXCEPT ![w].tmp = issues, ![w].pc = "write"]
    /\ UNCHANGED <<pc, listAnalyzers, analyzers, stdout, stderr, effects, golangciErr,
                   hasErrors, loadErr, pkgs, pkgIdx, files, aIdx, pending, issues, ret, passes,
                   reported, faults, exitCode, prior, rootCmd, updateCmd>>

\* issues++ in a goroutine, second half: the sum is written back.
WorkerWrite(w) ==
    /\ workers[w].pc = "write"
    /\ issues' = CountReport(workers[w].tmp)
    /\ workers' = [workers EXCEPT ![w].pc = "run"]
    /\ UNCHANGED <<pc, listAnalyzers, analyzers, stdout, stderr, effects, golangciErr,
                   hasErrors, loadErr, pkgs, pkgIdx, files, aIdx, pending, ret, passes,
                   reported, faults, exitCode, prior, rootCmd, updateCmd>>

\* a.Run returns in a goroutine: the next analyzer, or the goroutine ends.
WorkerRunReturns(w) ==
    /\ workers[w].pc = "run"
    /\ workers[w].pending = <<>>
    /\ workers' = IF workers[w].aIdx < Len(analyzers)
                  THEN [workers EXCEPT ![w].aIdx = workers[w].aIdx + 1, ![w].pc = "pass"]
                  ELSE [workers EXCEPT ![w].pc = "exit"]
    /\ UNCHANGED <<pc, listAnalyzers, analyzers, stdout, stderr, effects, golangciErr,
                   hasErrors, loadErr, pkgs, pkgIdx, files, aIdx, pending, issues, ret, passes,
                   reported, faults, exitCode, prior, rootCmd, updateCmd>>

\* Every goroutine has ended: return issues.
Join ==
    /\ pc = "wait"
    /\ \A w \in 1..Len(workers) : workers[w].pc = "exit"
    /\ ret' = issues
    /\ pc' = "analyzed"
    /\ UNCHANGED <<listAnalyzers, analyzers, stdout, stderr, effects, golangciErr, hasErrors,
                   loadErr, pkgs, pkgIdx, files, aIdx, pending, issues, passes, reported,
                   faults, exitCode, prior, workers, rootCmd, updateCmd>>

NextParallel ==
    \/ Load
    \/ Spawn
    \/ \E w \in 1..Len(workers) : WorkerFilter(w)
    \/ \E w \in 1..Len(workers) : WorkerStartPass(w)
    \/ \E w \in 1..Len(workers) : WorkerReport(w)
    \/ \E w \in 1..Len(workers) : WorkerRead(w)
    \/ \E w \in 1..Len(workers) : WorkerWrite(w)
    \/ \E w \in 1..Len(workers) : WorkerRunReturns(w)
    \/ Join

SpecParallel == InitParallel /\ [][NextParallel]_vars

-----------------------------------------------------------------------------
(* cmd/root.go: rootCmd.RunE, the bare "do" command *)

\* The commands slice of RunE.
Commands ==
    << [args |-> <<"go", "generate", "./...">>,                   hasVerbose |-> TRUE,  skipInCI |-> FALSE],
       [args |-> <<"go", "mod", "tidy">>,                         hasVerbose |-> TRUE,  skipInCI |-> TRUE],
       [args |-> <<"go", "build", "-o", "/dev/null", "./...">>,   hasVerbose |-> TRUE,  skipInCI |-> FALSE],
       [args |-> <<"go", "vet", "./...">>,                        hasVerbose |-> FALSE, skipInCI |-> FALSE],
       [args |-> <<"go", "tool", "do", "lint">>,                  hasVerbose |-> FALSE, skipInCI |-> FALSE],
       [args |-> <<"go", "test", "./...">>,                       hasVerbose |-> TRUE,  skipInCI |-> FALSE] >>

\* append(args[:2:2], append([]string{"-v"}, args[2:]...)...) when verbose is
\* set and the command takes -v, else args.
ArgsOf(c, verbose) ==
    IF verbose /\ c.hasVerbose
    THEN SubSeq(c.args, 1, 2) \o <<"-v">> \o SubSeq(c.args, 3, Len(c.args))
    ELSE c.args

RECURSIVE ArrowLine(_)
\* What the loop prints before it runs a command: " →", then each argument
\* after a space.
ArrowLine(args) ==
    IF args = <<>> THEN " →"
    ELSE ArrowLine(SubSeq(args, 1, Len(args) - 1)) \o " " \o args[Len(args)]

\* The errors run.Run can return: the command could not be started, or it
\* exited with a status other than 0.
RunErrors == {"exec: not found", "exit status 1"}

\* The commands PersistentPreRunE leaves without CI setup.
NoSetupNames == {"help", "init"}

\* Mutant of CiSetupWanted: ciSetupIfNeeded as it was before it looked at
\* DO_CI_SETUP_DONE.
CiSetupWantedUnguarded(name, isCI, setupDone) == name \notin NoSetupNames /\ isCI

\* PersistentPreRunE and the head of ciSetupIfNeeded in the process of the
\* command called name: the setup steps are wanted unless the command is help
\* or init, CI is not "true", or DO_CI_SETUP_DONE is "1".
CiSetupWanted(name, isCI, setupDone) ==
    /\ name \notin NoSetupNames
    /\ isCI
    /\ setupDone # "1"

\* The process "go tool do lint" has not been started.
NoChild == [pc |-> "none"]

\* A "do lint" process at its start, with CI and DO_CI_SETUP_DONE as its
\* environment has them; saw is what ciSetupIfNeeded read from
\* DO_CI_SETUP_DONE ("unread" before it did), exit the exit status.
LintProcess(isCI, setupDone) ==
    [pc |-> "PersistentPreRunE", isCI |-> isCI, setupDone |-> setupDone, saw |-> "unread",
     exit |-> -1]

\* The command is "go tool do lint", which starts a process of this program.
IsDoLint(c) == c.args = <<"go", "tool", "do", "lint">>

\* The bare "do" command is run, or "do lint" is run on its own: --verbose,
\* CI=true and DO_CI_SETUP_DONE=1 in the environment it is given are any.
InitRoot ==
    /\ pc = "none"
    /\ listAnalyzers = FALSE
    /\ analyzers = Registry
    /\ stdout = <<>>
    /\ stderr = <<>>
    /\ effects = {}
    /\ golangciErr = FALSE
    /\ hasErrors = FALSE
    /\ loadErr = FALSE
    /\ pkgs = <<>>
    /\ pkgIdx = 0
    /\ files = <<>>
    /\ aIdx = 0
    /\ pending = <<>>
    /\ issues = 0
    /\ ret = -1
    /\ passes = <<>>
    /\ reported = <<>>
    /\ faults = <<>>
    /\ exitCode = -1
    /\ prior = <<>>
    /\ workers = <<>>
    /\ \E verbose \in BOOLEAN : \E isCI \in BOOLEAN : \E setupDone \in {"", "1"} :
          \E alone \in BOOLEAN :
              rootCmd = [pc |-> IF alone THEN "none" ELSE "PersistentPreRunE",
                         verbose |-> verbose, isCI |-> isCI, idx |-> 1,
                         ran |-> <<>>, results |-> <<>>, err |-> "nil",
                         setupDone |-> setupDone, saw |-> "unread", setups |-> <<>>,
                         child |-> IF alone THEN LintProcess(isCI, setupDone) ELSE NoChild]
    /\ updateCmd = NoUpdate

\* A setup step as the history keeps it: the process that ran it, the value
\* DO_CI_SETUP_DONE had in that process when it ran, and the error it
\* returned.
SetupStep(proc, step, setupDone, err) ==
    [proc |-> proc, step |-> step, setupDone |-> setupDone, err |-> err]

\* PersistentPreRunE of the "do" process: leave ciSetupIfNeeded at once, or
\* os.Setenv("DO_CI_SETUP_DONE", "1") and go on to the steps.
RootPreRun ==
    /\ rootCmd.pc = "PersistentPreRunE"
    /\ rootCmd' = IF CiSetupWanted("do", rootCmd.isCI, rootCmd.setupDone)
                  THEN [rootCmd EXCEPT !.saw = rootCmd.setupDone, !.setupDone = "1",
                                       !.pc = "dropLocalReplaces"]
                  ELSE [rootCmd EXCEPT !.saw = rootCmd.setupDone, !.pc = "RunE"]
    /\ UNCHANGED <<pc, listAnalyzers, analyzers, stdout, stderr, effects, golangciErr,
                   hasErrors, loadErr, pkgs, pkgIdx, files, aIdx, pending, issues, ret, passes,
                   reported, faults, exitCode, prior, workers, updateCmd>>

\* dropLocalReplaces in the "do" process: its error ends the command.
RootDropReplaces ==
    /\ rootCmd.pc = "dropLocalReplaces"
    /\ \E err \in {"nil"} \cup RunErrors :
          /\ rootCmd' = [rootCmd EXCEPT
                            !.setups = Append(@, SetupStep("do", "dropLocalReplaces", rootCmd.setupDone, err)),
                            !.err = err,
                            !.pc = IF err = "nil" THEN "installToolDeps" ELSE "done"]
          /\ exitCode' = IF err = "nil" THEN exitCode ELSE 1
    /\ UNCHANGED <<pc, listAnalyzers, analyzers, stdout, stderr, effects, golangciErr,
                   hasErrors, loadErr, pkgs, pkgIdx, files, aIdx, pending, issues, ret, passes,
                   reported, faults, prior, workers, updateCmd>>

\* installToolDeps in the "do" process: print and run go install tool; its
\* error is ignored.
RootInstallTools ==
    /\ rootCmd.pc = "installToolDeps"
    /\ stdout' = Append(stdout, " → go install tool")
    /\ rootCmd' = [rootCmd EXCEPT
                      !.setups = Append(@, SetupStep("do", "installToolDeps", rootCmd.setupDone, "nil")),
                      !.pc = "RunE"]
    /\ UNCHANGED <<pc, listAnalyzers, analyzers, stderr, effects, golangciErr,
                   hasErrors, loadErr, pkgs, pkgIdx, files, aIdx, pending, issues, ret, passes,
                   reported, faults, exitCode, prior, workers, updateCmd>>

\* exec.LookPath("templ")
RootLookPath ==
    /\ rootCmd.pc = "RunE"
    /\ \E found \in BOOLEAN :
          rootCmd' = [rootCmd EXCEPT !.pc = IF found THEN "commands" ELSE "install"]
    /\ UNCHANGED <<pc, listAnalyzers, analyzers, stdout, stderr, effects, golangciErr,
                   hasErrors, loadErr, pkgs, pkgIdx, files, aIdx, pending, issues, ret, passes,
                   reported, faults, exitCode, prior, workers, updateCmd>>

\* go install templ: its error is ignored.
RootInstall ==
    /\ rootCmd.pc = "install"
    /\ \E ok \in BOOLEAN :
          effects' = effects \cup {IF ok THEN "templ installed" ELSE "templ install failed"}
    /\ rootCmd' = [rootCmd EXCEPT !.pc = "commands"]
    /\ UNCHANGED <<pc, listAnalyzers, analyzers, stdout, stderr, golangciErr,
                   hasErrors, loadErr, pkgs, pkgIdx, files, aIdx, pending, issues, ret, passes,
                   reported, faults, exitCode, prior, workers, updateCmd>>

\* The loop over commands, at a command that is skipped when CI=true.
RootSkip ==
    /\ rootCmd.pc = "commands"
    /\ rootCmd.idx <= Len(Commands)
    /\ Commands[rootCmd.idx].skipInCI /\ rootCmd.isCI
    /\ rootCmd' = [rootCmd EXCEPT !.idx = rootCmd.idx + 1]
    /\ UNCHANGED <<pc, listAnalyzers, analyzers, stdout, stderr, effects, golangciErr,
                   hasErrors, loadErr, pkgs, pkgIdx, files, aIdx, pending, issues, ret, passes,
                   reported, faults, exitCode, prior, workers, updateCmd>>

\* The loop over commands at "go tool do lint": run.Run starts the process,
\* which inherits the environment of the "do" process as it is now, and
\* waits for it.
RootStartLint ==
    /\ rootCmd.pc = "commands"
    /\ rootCmd.idx <= Len(Commands)
    /\ ~(Commands[rootCmd.idx].skipInCI /\ rootCmd.isCI)
    /\ IsDoLint(Commands[rootCmd.idx])
    /\ rootCmd.child.pc = "none"
    /\ rootCmd' = [rootCmd EXCEPT !.child = LintProcess(rootCmd.isCI, rootCmd.setupDone)]
    /\ UNCHANGED <<pc, listAnalyzers, analyzers, stdout, stderr, effects, golangciErr,
                   hasErrors, loadErr, pkgs, pkgIdx, files, aIdx, pending, issues, ret, passes,
                   reported, faults, exitCode, prior, workers, updateCmd>>

\* PersistentPreRunE of the "do lint" process.
LintPreRun ==
    /\ rootCmd.child.pc = "PersistentPreRunE"
    /\ rootCmd' = IF CiSetupWanted("lint", rootCmd.child.isCI, rootCmd.child.setupDone)
                  THEN [rootCmd EXCEPT !.child.saw = rootCmd.child.setupDone,
                                       !.child.setupDone = "1",
                                       !.child.pc = "dropLocalReplaces"]
                  ELSE [rootCmd EXCEPT !.child.saw = rootCmd.child.setupDone,
                                       !.child.pc = "RunE"]
    /\ UNCHANGED <<pc, listAnalyzers, analyzers, stdout, stderr, effects, golangciErr,
                   hasErrors, loadErr, pkgs, pkgIdx, files, aIdx, pending, issues, ret, passes,
                   reported, faults, exitCode, prior, workers, updateCmd>>

\* dropLocalReplaces in the "do lint" process: its error ends the process.
LintDropReplaces ==
    /\ rootCmd.child.pc = "dropLocalReplaces"
    /\ \E err \in {"nil"} \cup RunErrors :
          rootCmd' = [rootCmd EXCEPT
                        !.setups = Append(@, SetupStep("lint", "dropLocalReplaces",
                                                       rootCmd.child.setupDone, err)),
                        !.child.pc = IF err = "nil" THEN "installToolDeps" ELSE "exited",
                        !.child.exit = IF err = "nil" THEN @ ELSE 1]
    /\ UNCHANGED <<pc, listAnalyzers, analyzers, stdout, stderr, effects, golangciErr,
                   hasErrors, loadErr, pkgs, pkgIdx, files, aIdx, pending, issues, ret, passes,
                   reported, faults, exitCode, prior, workers, updateCmd>>

\* installToolDeps in the "do lint" process.
LintInstallTools ==
    /\ rootCmd.child.pc = "installToolDeps"
    /\ rootCmd' = [rootCmd EXCEPT
                      !.setups = Append(@, SetupStep("lint", "installToolDeps",
                                                     rootCmd.child.setupDone, "nil")),
                      !.child.pc = "RunE"]
    /\ UNCHANGED <<pc, listAnalyzers, analyzers, stdout, stderr, effects, golangciErr,
                   hasErrors, loadErr, pkgs, pkgIdx, files, aIdx, pending, issues, ret, passes,
                   reported, faults, exitCode, prior, workers, updateCmd>>

\* lintCmd.RunE in the "do lint" process, which exits 0 or 1.
LintRunE ==
    /\ rootCmd.child.pc = "RunE"
    /\ \E status \in {0, 1} :
          rootCmd' = [rootCmd EXCEPT !.child.pc = "exited", !.child.exit = status]
    /\ UNCHANGED <<pc, listAnalyzers, analyzers, stdout, stderr, effects, golangciErr,
                   hasErrors, loadErr, pkgs, pkgIdx, files, aIdx, pending, issues, ret, passes,
                   reported, faults, exitCode, prior, workers, updateCmd>>

\* What run.Run can return for a command: for "go tool do lint" what the
\* exit status of the process it waited for makes it, for another command
\* nil or an error.
RunResults(c) ==
    IF IsDoLint(c)
    THEN {IF rootCmd.child.exit = 0 THEN "nil" ELSE "exit status 1"}
    ELSE {"nil"} \cup RunErrors

\* Mutant of RootRun: the error of a failed command is kept and the loop goes
\* on with the next command.
RootRunKeepsGoing ==
    /\ rootCmd.pc = "commands"
    /\ rootCmd.idx <= Len(Commands)
    /\ ~(Commands[rootCmd.idx].skipInCI /\ rootCmd.isCI)
    /\ IsDoLint(Commands[rootCmd.idx]) => rootCmd.child.pc = "exited"
    /\ LET args == ArgsOf(Commands[rootCmd.idx], rootCmd.verbose)
       IN  /\ stdout' = Append(stdout, ArrowLine(args))
           /\ \E err \in RunResults(Commands[rootCmd.idx]) :
                 /\ rootCmd' = [rootCmd EXCEPT !.ran = Append(rootCmd.ran, args),
                                               !.results = Append(rootCmd.results, err),
                                               !.idx = rootCmd.idx + 1,
                                               !.err = IF err = "nil" THEN rootCmd.err ELSE err]
                 /\ exitCode' = IF err = "nil" THEN exitCode ELSE 1
    /\ UNCHANGED <<pc, listAnalyzers, analyzers, stderr, effects, golangciErr,
                   hasErrors, loadErr, pkgs, pkgIdx, files, aIdx, pending, issues, ret, passes,
                   reported, faults, prior, workers, updateCmd>>

\* The loop over commands: print the command and run it; RunE returns the
\* error if it fails, and Execute then exits 1.
RootRun ==
    /\ rootCmd.pc = "commands"
    /\ rootCmd.idx <= Len(Commands)
    /\ ~(Commands[rootCmd.idx].skipInCI /\ rootCmd.isCI)
    /\ IsDoLint(Commands[rootCmd.idx]) => rootCmd.child.pc = "exited"
    /\ LET args == ArgsOf(Commands[rootCmd.idx], rootCmd.verbose)
       IN  /\ stdout' = Append(stdout, ArrowLine(args))
           /\ \E err \in RunResults(Commands[rootCmd.idx]) :
                 /\ rootCmd' = [rootCmd EXCEPT !.ran = Append(rootCmd.ran, args),
                                               !.results = Append(rootCmd.results, err),
                                               !.idx = IF err = "nil" THEN rootCmd.idx + 1 ELSE rootCmd.idx,
                                               !.pc  = IF err = "nil" THEN "commands" ELSE "done",
                                               !.err = err]
                 /\ exitCode' = IF err = "nil" THEN exitCode ELSE 1
    /\ UNCHANGED <<pc, listAnalyzers, analyzers, stderr, effects, golangciErr,
                   hasErrors, loadErr, pkgs, pkgIdx, files, aIdx, pending, issues, ret, passes,
                   reported, faults, prior, workers, updateCmd>>

\* The loop over commands is over: return nil.
RootReturn ==
    /\ rootCmd.pc = "commands"
    /\ rootCmd.idx > Len(Commands)
    /\ rootCmd' = [rootCmd EXCEPT !.pc = "done", !.err = "nil"]
    /\ exitCode' = 0
    /\ UNCHANGED <<pc, listAnalyzers, analyzers, stdout, stderr, effects, golangciErr,
                   hasErrors, loadErr, pkgs, pkgIdx, files, aIdx, pending, issues, ret, passes,
                   reported, faults, prior, workers, updateCmd>>

NextRoot ==
    \/ RootPreRun
    \/ RootDropReplaces
    \/ RootInstallTools
    \/ RootLookPath
    \/ RootInstall
    \/ RootSkip
    \/ RootStartLint
    \/ LintPreRun
    \/ LintDropReplaces
    \/ LintInstallTools
    \/ LintRunE
    \/ RootRun
    \/ RootReturn

SpecRoot == InitRoot /\ [][NextRoot]_vars

\* The steps of "go do" in the order the README lists them, each named by
\* the argument that follows "go" in its command.
ReadmeSteps == <<"mod", "generate", "build", "vet", "tool", "test">>

-----------------------------------------------------------------------------
(* cmd/update.go: updateCmd.RunE and runWithRetry *)

\* The largest maxRetries a caller hands to runWithRetry in the model.
MaxRetries == 4

\* errors.WithStack: nil for nil, else the error with a stack attached.
WithStack(err) == IF err = "nil" THEN "nil" ELSE err \o " (with stack)"

\* fmt.Printf("Retrying (%d/%d)...\n", i+1, maxRetries)
RetryingLine(i, maxRetries) ==
    "Retrying (" \o ToString(i + 1) \o "/" \o ToString(maxRetries) \o ")..."

\* A call of runWithRetry at the head of its loop: i is the loop variable,
\* runs the result of each cmd.Run so far, slept the number of time.Sleep
\* calls, result the value returned ("none" before the return).
RetryCall(caller, maxRetries) ==
    [ pc |-> "loop", caller |-> caller, maxRetries |-> maxRetries, i |-> 0, lastErr |-> "nil",
      runs |-> <<>>, slept |-> 0, result |-> "none" ]

\* "do update" is run, with or without --direct, or runWithRetry is called on
\* its own with any maxRetries.
InitUpdate ==
    /\ pc = "none"
    /\ listAnalyzers = FALSE
    /\ analyzers = Registry
    /\ stdout = <<>>
    /\ stderr = <<>>
    /\ effects = {}
    /\ golangciErr = FALSE
    /\ hasErrors = FALSE
    /\ loadErr = FALSE
    /\ pkgs = <<>>
    /\ pkgIdx = 0
    /\ files = <<>>
    /\ aIdx = 0
    /\ pending = <<>>
    /\ issues = 0
    /\ ret = -1
    /\ passes = <<>>
    /\ reported = <<>>
    /\ faults = <<>>
    /\ exitCode = -1
    /\ prior = <<>>
    /\ workers = <<>>
    /\ rootCmd = NoRoot
    /\ \/ \E direct \in BOOLEAN :
             updateCmd = [RetryCall("RunE", 0) EXCEPT !.pc = IF direct THEN "direct" ELSE "plain"]
       \/ \E maxRetries \in 0..MaxRetries : updateCmd = RetryCall("test", maxRetries)

\* RunE with --direct: runWithRetry(goCmd, 3, 2*time.Second).
UpdateDirect ==
    /\ updateCmd.pc = "direct"
    /\ updateCmd' = RetryCall("RunE", 3)
    /\ UNCHANGED <<pc, listAnalyzers, analyzers, stdout, stderr, effects, golangciErr,
                   hasErrors, loadErr, pkgs, pkgIdx, files, aIdx, pending, issues, ret, passes,
                   reported, faults, exitCode, prior, workers, rootCmd>>

\* RunE without --direct: goCmd.Run once, its error returned with a stack.
UpdatePlain ==
    /\ updateCmd.pc = "plain"
    /\ \E err \in {"nil"} \cup RunErrors :
          /\ updateCmd' = [updateCmd EXCEPT !.runs = Append(updateCmd.runs, err),
                                            !.result = WithStack(err),
                                            !.pc = "done"]
          /\ exitCode' = IF err = "nil" THEN 0 ELSE 1
    /\ UNCHANGED <<pc, listAnalyzers, analyzers, stdout, stderr, effects, golangciErr,
                   hasErrors, loadErr, pkgs, pkgIdx, files, aIdx, pending, issues, ret, passes,
                   reported, faults, prior, workers, rootCmd>>

\* The head of an iteration of "for i := range maxRetries": after the first,
\* print the retry line, build a new exec.Cmd and sleep.
RetryIterate ==
    /\ updateCmd.pc = "loop"
    /\ updateCmd.i < updateCmd.maxRetries
    /\ stdout' = IF updateCmd.i > 0
                 THEN Append(stdout, RetryingLine(updateCmd.i, updateCmd.maxRetries))
                 ELSE stdout
    /\ updateCmd' = [updateCmd EXCEPT !.slept = IF updateCmd.i > 0 THEN @ + 1 ELSE @,
                                      !.pc = "run"]
    /\ UNCHANGED <<pc, listAnalyzers, analyzers, stderr, effects, golangciErr,
                   hasErrors, loadErr, pkgs, pkgIdx, files, aIdx, pending, issues, ret, passes,
                   reported, faults, exitCode, prior, workers, rootCmd>>

\* Mutant of RetryRun: a successful cmd.Run clears lastErr and the loop goes
\* on to its next iteration.
RetryRunNoReturn ==
    /\ updateCmd.pc = "run"
    /\ \E err \in {"nil"} \cup RunErrors :
          updateCmd' = [updateCmd EXCEPT !.runs = Append(updateCmd.runs, err),
                                         !.lastErr = err,
                                         !.i = updateCmd.i + 1,
                                         !.pc = "loop"]
    /\ UNCHANGED <<pc, listAnalyzers, analyzers, stdout, stderr, effects, golangciErr,
                   hasErrors, loadErr, pkgs, pkgIdx, files, aIdx, pending, issues, ret, passes,
                   reported, faults, exitCode, prior, workers, rootCmd>>

\* cmd.Run in the loop: an error is kept in lastErr and the loop continues,
\* a success returns nil.
RetryRun ==
    /\ updateCmd.pc = "run"
    /\ \E err \in {"nil"} \cup RunErrors :
          updateCmd' = IF err = "nil"
                       THEN [updateCmd EXCEPT !.runs = Append(updateCmd.runs, err),
                                              !.result = "nil",
                                              !.pc = "returned"]
                       ELSE [updateCmd EXCEPT !.runs = Append(updateCmd.runs, err),
                                              !.lastErr = err,
                                              !.i = updateCmd.i + 1,
                                              !.pc = "loop"]
    /\ UNCHANGED <<pc, listAnalyzers, analyzers, stdout, stderr, effects, golangciErr,
                   hasErrors, loadErr, pkgs, pkgIdx, files, aIdx, pending, issues, ret, passes,
                   reported, faults, exitCode, prior, workers, rootCmd>>

\* The loop is over: return errors.WithStack(lastErr).
RetryExhausted ==
    /\ updateCmd.pc = "loop"
    /\ updateCmd.i >= updateCmd.maxRetries
    /\ updateCmd' = [updateCmd EXCEPT !.result = WithStack(updateCmd.lastErr), !.pc = "returned"]
    /\ UNCHANGED <<pc, listAnalyzers, analyzers, stdout, stderr, effects, golangciErr,
                   hasErrors, loadErr, pkgs, pkgIdx, files, aIdx, pending, issues, ret, passes,
                   reported, faults, exitCode, prior, workers, rootCmd>>

\* runWithRetry has returned to RunE, which returns its result; Execute exits
\* 1 on an error.
UpdateReturn ==
    /\ updateCmd.pc = "returned"
    /\ updateCmd' = [updateCmd EXCEPT !.pc = "done"]
    /\ exitCode' = IF updateCmd.result = "nil" THEN 0 ELSE 1
    /\ UNCHANGED <<pc, listAnalyzers, analyzers, stdout, stderr, effects, golangciErr,
                   hasErrors, loadErr, pkgs, pkgIdx, files, aIdx, pending, issues, ret, passes,
                   reported, faults, prior, workers, rootCmd>>

NextUpdate ==
    \/ UpdateDirect
    \/ UpdatePlain
    \/ RetryIterate
    \/ RetryRun
    \/ RetryExhausted
    \/ UpdateReturn

SpecUpdate == InitUpdate /\ [][NextUpdate]_vars
-----------------------------------------------------------------------------
(* Properties *)

\* Pass k has returned from its a.Run.
PassDone(k) == k < Len(passes) \/ pc \in {"analyzers", "pkgloop", "analyzed", "done"}

\* The number of diagnostics pass k reported at a position.
ReportedAt(k, pos) ==
    Cardinality({i \in 1..Len(reported) : reported[i].pass = k /\ reported[i].pos = pos})

\* The diagnostics pass k reported, in order.
ReportedBy(k) == SelectSeq(reported, LAMBDA r : r.pass = k)

\* The line of reported diagnostic r: its position in the file set of its
\* pass's unit, its message, the name of its pass's analyzer.
LineOf(r) == DiagLine(passes[r.pass].unit, r, AnalyzerOf(passes[r.pass].rule).Name)

\* The lines of os.Stderr that are not the load-failure line.
DiagnosticLines == SelectSeq(stderr, LAMBDA l : l # LoadFailureLine)

RECURSIVE RuleOutputTotal(_)
\* The number of diagnostics the analyzers of the first passes produce on
\* their files.
RuleOutputTotal(ps) ==
    IF ps = <<>> THEN 0
    ELSE Len(RunOf(Head(ps).rule, Head(ps).files)) + RuleOutputTotal(Tail(ps))

\* C1 as stated: for every run of runAnalyzers, the integer returned is the
\* number of diagnostics reported during the run.
C1_ReturnIsDiagnosticCount == ret # -1 => ret = Len(reported)

\* C1 amended: at every point of the run the counter issues is the number of
\* diagnostic lines written so far, one line "position: message (rule)" per
\* reported diagnostic; a run whose load succeeded returns that number, which
\* is the number of diagnostics its analyzers produced; a run whose load
\* failed returns 1 with no diagnostic line written.
C1_CountMatchesLines ==
    /\ issues = Len(reported)
    /\ DiagnosticLines = [k \in 1..Len(reported) |-> LineOf(reported[k])]
    /\ (ret # -1 /\ ~loadErr) => (ret = Len(reported) /\ ret = RuleOutputTotal(passes))
    /\ loadErr => (reported = <<>> /\ (ret # -1 => ret = 1))

\* A run that loaded its units and returned a count of at least two.
C1_Witness == pc = "analyzed" /\ ~loadErr /\ ret >= 2 /\ Len(stderr) = ret

\* C2: after a successful analysis the command exits nonzero exactly when the
\* returned count is positive or golangci-lint failed.
C2_ExitStatus ==
    (pc = "done" /\ ret # -1 /\ ~loadErr) => (exitCode # 0 <=> (ret > 0 \/ golangciErr))

\* No diagnostic, golangci-lint failed: the command exits 1.
C2_Witness == pc = "done" /\ ~loadErr /\ ret = 0 /\ golangciErr /\ exitCode = 1

\* The generated-code marker as the corpus carries it.
GeneratedMarker ==
    <<"/", "/", " ", "C", "o", "d", "e", " ", "g", "e", "n", "e", "r", "a", "t", "e", "d", " ",
      "b", "y", " ", "t", "o", "o", "l", ".", " ", "D", "O", " ", "N", "O", "T", " ", "E", "D", "I", "T", ".">>

\* The unit has one file, and a comment of that file is the marker.
SoleFileGenerated(unit) ==
    /\ Len(UnitOf(unit).syntax) = 1
    /\ \E c \in Range(CommentsOf(FileOf(UnitOf(unit).syntax[1]))) : c.text = GeneratedMarker

\* The position lies in a file of the unit.
InUnit(unit, pos) ==
    \E n \in Range(UnitOf(unit).syntax) :
        FileOf(n).base <= pos /\ pos <= FileOf(n).base + FileOf(n).size

\* C3: no Pass is built for a unit whose only file carries the generated-code
\* marker, so no analyzer runs on it, and no diagnostic is reported in it.
C3_GeneratedUnitExcluded ==
    \A u \in Range(pkgs) : SoleFileGenerated(u) =>
        /\ \A k \in 1..Len(passes) : passes[k].unit # u
        /\ \A r \in Range(reported) : ~InUnit(u, r.pos)

\* A finished run over a generated unit on which both analyzers would report.
C3_Witness ==
    /\ pc = "analyzed"
    /\ \E u \in Range(pkgs) :
          /\ SoleFileGenerated(u)
          /\ PkgerrorsRun(UnitOf(u).syntax) # <<>>
          /\ NocommentsRun(UnitOf(u).syntax) # <<>>

\* The load failed: packages.Load returned an error, or a loaded unit failed
\* to parse.
LoadFailed == loadErr \/ \E u \in Range(pkgs) : UnitOf(u).errors

\* C4 as stated: a load failure is reported once, no Pass is built, no
\* diagnostic is written and the process exits nonzero.
C4_LoadFailureFatal ==
    (pc = "done" /\ "load" \in effects /\ LoadFailed) =>
        /\ passes = <<>>
        /\ reported = <<>>
        /\ stderr = <<LoadFailureLine>>
        /\ exitCode # 0

\* The listing of the two-analyzer registry.
RegistryListing ==
    << "pkgerrors: checks that github.com/pkg/errors is used instead of the standard errors package or fmt.Errorf",
       "  - use github.com/pkg/errors errors.WithStack by default and errors.Wrap only if it will be unwrapped",
       "nocomments: disallows comments except godoc and //! for important notes",
       "  - write self-commenting code; use //! prefix if truly important" >>

\* C5: list mode prints the two analyzers' blocks and returns success, having
\* looked up, installed and run nothing, written no config, loaded no unit
\* and built no Pass.
C5_ListModeOnlyPrints ==
    listAnalyzers =>
        /\ effects = {}
        /\ pkgs = <<>> /\ passes = <<>> /\ reported = <<>> /\ stderr = <<>>
        /\ pc = "done" => (stdout = RegistryListing /\ exitCode = 0)

\* List mode has printed and returned.
C5_Witness == listAnalyzers /\ pc = "done" /\ Len(stdout) = 4

\* C6 as stated: an a.Run that fails is logged (a line on os.Stderr that is no
\* diagnostic line), does not end the process, and is not counted.
C6_RuleFailureIsolated ==
    faults # <<>> =>
        /\ pc # "crashed"
        /\ Len(stderr) = Len(reported) + Len(faults)
        /\ issues = Len(reported)

\* strconv.Unquote of an import path literal without escapes: the text
\* between its delimiters.
ImportPath(imp) == SubSeq(imp.name, 2, Len(imp.name) - 1)

\* C7 as stated: a finished pkgerrors pass has reported one diagnostic, with
\* the text of MsgFmtErrorf, at each import spec of its files whose path is
\* errors, and none at any other import spec.
C7_ErrorsImportsReported ==
    \A k \in 1..Len(passes) : (passes[k].rule = "pkgerrors" /\ PassDone(k)) =>
        \A n \in Range(passes[k].files) : \A i \in Range(FileOf(n).imports) :
            LET imp == FileOf(n).nodes[i]
            IN  /\ ReportedAt(k, imp.pos) =
                      IF ImportPath(imp) = <<"e", "r", "r", "o", "r", "s">> THEN 1 ELSE 0
                /\ \A r \in Range(ReportedBy(k)) : r.pos = imp.pos => r.message = MsgFmtErrorf

\* The positions in the corpus sources where the text fmt.Errorf( begins and
\* follows neither a dot nor a letter.
FmtErrorfCallSites == {134, 159, 2117, 3254, 7123, 8079, 8112, 8159, 9432}

\* The CallExpr nodes of a file.
CallsOf(file) == {n \in Range(file.nodes) : n.kind = "CallExpr"}

\* C8: a finished pkgerrors pass has reported one diagnostic at each call of
\* the form fmt.Errorf(...) in its files, nested calls included, and none at
\* any other call.
C8_FmtErrorfCallsReported ==
    \A k \in 1..Len(passes) : (passes[k].rule = "pkgerrors" /\ PassDone(k)) =>
        \A n \in Range(passes[k].files) : \A call \in CallsOf(FileOf(n)) :
            ReportedAt(k, call.pos) = IF call.pos \in FmtErrorfCallSites THEN 1 ELSE 0

\* A finished pkgerrors pass over errs.go: the nested fmt.Errorf call is
\* reported, other.Errorf and fmt.Println are not.
C8_Witness ==
    \E k \in 1..Len(passes) :
        /\ passes[k].rule = "pkgerrors" /\ PassDone(k)
        /\ passes[k].files = <<"errs.go">>
        /\ ReportedAt(k, 134) = 1 /\ ReportedAt(k, 103) = 0 /\ ReportedAt(k, 122) = 0

\* The declarations that own a documentation comment group.
Declarations == {"GenDecl", "FuncDecl", "TypeSpec", "ValueSpec", "Field"}

\* The comment groups of a file that the syntax tree links as documentation:
\* the file's own, and the Doc of each declaration in its node table.
DocGroups(file) ==
    ({file.doc} \cup {n.doc : n \in {m \in Range(file.nodes) : m.kind \in Declarations}}) \ {0}

\* C9: a finished nocomments pass has reported nothing at a comment of a
\* documentation group, whatever its text.
C9_DocCommentsAllowed ==
    \A k \in 1..Len(passes) : (passes[k].rule = "nocomments" /\ PassDone(k)) =>
        \A n \in Range(passes[k].files) : \A g \in DocGroups(FileOf(n)) :
            \A c \in Range(FileOf(n).comments[g]) : ReportedAt(k, c.pos) = 0

\* A finished nocomments pass over docs.go, which reported the free comment
\* at 1278 and not the field's doc comment at 1118.
C9_Witness ==
    \E k \in 1..Len(passes) :
        /\ passes[k].rule = "nocomments" /\ PassDone(k)
        /\ passes[k].files = <<"docs.go">>
        /\ ReportedAt(k, 1278) = 1 /\ ReportedAt(k, 1118) = 0
        /\ 4 \in DocGroups(FileDocs)

\* The raw text begins with //! or with /*!.
HasNotePrefix(text) ==
    Len(text) >= 3 /\ text[1] = "/" /\ text[2] \in {"/", "*"} /\ text[3] = "!"

\* C10: a finished nocomments pass has reported nothing at a comment whose
\* raw text begins with the intentional-note prefix, wherever it stands.
C10_NoteCommentsAllowed ==
    \A k \in 1..Len(passes) : (passes[k].rule = "nocomments" /\ PassDone(k)) =>
        \A n \in Range(passes[k].files) : \A c \in Range(CommentsOf(FileOf(n))) :
            HasNotePrefix(c.text) => ReportedAt(k, c.pos) = 0

\* A finished nocomments pass over docs.go, whose notes at 1296 and 1315 are
\* no documentation, stand in a group with reported comments, and are not
\* reported.
C10_Witness ==
    \E k \in 1..Len(passes) :
        /\ passes[k].rule = "nocomments" /\ PassDone(k)
        /\ passes[k].files = <<"docs.go">>
        /\ {1296, 1315} \cap CollectDocPositions(FileDocs) = {}
        /\ ReportedAt(k, 1278) = 1 /\ ReportedAt(k, 1296) = 0 /\ ReportedAt(k, 1315) = 0
        /\ ReportedAt(k, 1334) = 1

\* The positions of the comments of the documentation groups of a file.
DocCommentPositions(file) ==
    UNION {{c.pos : c \in Range(file.comments[g])} : g \in DocGroups(file)}

\* The comment is neither documentation nor an intentional note.
Disallowed(file, c) == c.pos \notin DocCommentPositions(file) /\ ~HasNotePrefix(c.text)

\* C11: a finished nocomments pass has reported one diagnostic at each comment
\* that is neither documentation nor an intentional note, at that comment's
\* own position, so a group of k such comments has k diagnostics.
C11_OnePerComment ==
    \A k \in 1..Len(passes) : (passes[k].rule = "nocomments" /\ PassDone(k)) =>
        \A n \in Range(passes[k].files) :
            /\ \A c \in Range(CommentsOf(FileOf(n))) :
                  Disallowed(FileOf(n), c) => ReportedAt(k, c.pos) = 1
            /\ \A g \in 1..Len(FileOf(n).comments) :
                  Cardinality({i \in 1..Len(reported) :
                                  /\ reported[i].pass = k
                                  /\ reported[i].pos \in GroupPositions(FileOf(n), g)})
                    = Cardinality({c \in Range(FileOf(n).comments[g]) : Disallowed(FileOf(n), c)})

\* A finished nocomments pass over notes.go: the group of three plain comments
\* has three diagnostics.
C11_Witness ==
    \E k \in 1..Len(passes) :
        /\ passes[k].rule = "nocomments" /\ PassDone(k)
        /\ passes[k].files = <<"notes.go">>
        /\ GroupPositions(FileNotes, 2) = {6053, 6061, 6069}
        /\ \A p \in {6053, 6061, 6069} : ReportedAt(k, p) = 1

\* The raw text has one character that is not "!" between the comment opener
\* and a "!".
HasSpacedNotePrefix(text) ==
    Len(text) >= 4 /\ text[1] = "/" /\ text[2] \in {"/", "*"} /\ text[3] # "!" /\ text[4] = "!"

\* C12: a finished nocomments pass has reported a free-standing comment whose
\* text has a character between the comment opener and the "!": the prefix is
\* matched on the raw text.
C12_PrefixIsLiteral ==
    \A k \in 1..Len(passes) : (passes[k].rule = "nocomments" /\ PassDone(k)) =>
        \A n \in Range(passes[k].files) : \A c \in Range(CommentsOf(FileOf(n))) :
            (HasSpacedNotePrefix(c.text) /\ c.pos \notin DocCommentPositions(FileOf(n)))
                => ReportedAt(k, c.pos) = 1

\* A finished nocomments pass over notes.go, whose comments "// ! note" and
\* "/* ! note */" are reported and whose comment "//!ok" is not.
C12_Witness ==
    \E k \in 1..Len(passes) :
        /\ passes[k].rule = "nocomments" /\ PassDone(k)
        /\ passes[k].files = <<"notes.go">>
        /\ \E c \in Range(CommentsOf(FileNotes)) : c.pos = 6027 /\ HasSpacedNotePrefix(c.text)
        /\ \E c \in Range(CommentsOf(FileNotes)) : c.pos = 6038 /\ HasSpacedNotePrefix(c.text)
        /\ ReportedAt(k, 6027) = 1 /\ ReportedAt(k, 6038) = 1 /\ ReportedAt(k, 6080) = 0

\* The (position, message, rule name) of each diagnostic of a call's history.
Tuples(ps, rep) ==
    [i \in 1..Len(rep) |->
        <<Position(ps[rep[i].pass].unit, rep[i].pos), rep[i].message,
          AnalyzerOf(ps[rep[i].pass].rule).Name>>]

\* The number of times t occurs in a sequence.
Occurrences(seq, t) == Cardinality({i \in 1..Len(seq) : seq[i] = t})

DiagnosticsOf(rep, k) ==
    LET mine == SelectSeq(rep, LAMBDA r : r.pass = k)
    IN  [i \in 1..Len(mine) |-> <<mine[i].pos, mine[i].message>>]

ReadmeRank(args) == CHOOSE r \in 1..Len(ReadmeSteps) : ReadmeSteps[r] = args[2]

\* C16 as stated: the commands the root command has run are in the order go
\* mod tidy, go generate, go build, go vet, do lint, go test.
C16_StepOrder ==
    rootCmd.pc # "none" =>
        \A i, j \in 1..Len(rootCmd.ran) :
            i < j => ReadmeRank(rootCmd.ran[i]) < ReadmeRank(rootCmd.ran[j])

\* The files of a unit that do not carry the generated-code marker.
HandWritten(unit) ==
    SelectSeq(UnitOf(unit).syntax,
              LAMBDA n : ~\E c \in Range(CommentsOf(FileOf(n))) : c.text = GeneratedMarker)

\* The (unit, rule) pairs of Analyzing: for each unit with a file that is not
\* generated, in the units' order, each analyzer in the list's order.
ExpectedPairs(units, as) ==
    Flatten([u \in 1..Len(units) |->
                IF HandWritten(units[u]) = <<>> THEN <<>>
                ELSE [a \in 1..Len(as) |-> <<units[u], as[a]>>]])

\* C17: the Passes built so far are the first of the expected (unit, rule)
\* pairs, each once and in order, each over its unit's files that are not
\* generated, and all of them once runAnalyzers has returned; every
\* diagnostic was written and counted when it was reported, in a line that
\* names the rule of the Pass that was running.
C17_EveryPairOnceInOrder ==
    LET pairs    == [k \in 1..Len(passes) |-> <<passes[k].unit, passes[k].rule>>]
        expected == ExpectedPairs(pkgs, analyzers)
    IN  /\ Len(pairs) <= Len(expected)
        /\ pairs = SubSeq(expected, 1, Len(pairs))
        /\ \A k \in 1..Len(passes) : passes[k].files = HandWritten(passes[k].unit)
        /\ (ret # -1 /\ ~loadErr) => pairs = expected
        /\ issues = Len(reported)
        /\ Len(DiagnosticLines) = Len(reported)
        /\ \A i \in 1..Len(reported) :
              /\ reported[i].pass \in 1..Len(passes)
              /\ i < Len(reported) => reported[i].pass <= reported[i + 1].pass
              /\ DiagnosticLines[i] =
                    DiagLine(pairs[reported[i].pass][1], reported[i],
                             AnalyzerOf(pairs[reported[i].pass][2]).Name)
        /\ pc = "running" => \A i \in 1..Len(reported) :
              reported[i].pass = Len(passes) =>
                  <<reported[i].pos, reported[i].message>> \in
                      {<<d.pos, d.message>> : d \in Range(RunOf(analyzers[aIdx], files))}

\* runAnalyzers has returned after four Passes over two units, with
\* diagnostics of both analyzers and on both units.
C17_Witness ==
    /\ pc = "analyzed" /\ ~loadErr
    /\ Len(pkgs) = 2 /\ Len(passes) = 4
    /\ passes[1].unit = passes[2].unit /\ passes[3].unit = passes[4].unit
    /\ passes[1].unit # passes[3].unit
    /\ \E r \in Range(reported) : r.pass = 1
    /\ \E r \in Range(reported) : r.pass = 2
    /\ \E r \in Range(reported) : r.pass \in {3, 4}

\* The phase of the run at a position of the process: 0 before runAnalyzers
\* is entered, 1 Loading, 2 Filtering, 3 Analyzing, 4 Reporting (the count is
\* surfaced), 5 Done.
PhaseRank(at) ==
    CASE at = "load" -> 1
      [] at = "pkgloop" -> 2
      [] at \in {"analyzers", "running"} -> 3
      [] at = "analyzed" -> 4
      [] at = "done" -> 5
      [] OTHER -> 0

\* C18 as stated: the run moves through Loading, Filtering, Analyzing,
\* Reporting, Done in that order: no step leads back to an earlier phase.
C18_PhasesInOrder == [][PhaseRank(pc') >= PhaseRank(pc)]_vars

\* The steps from one phase to another that the amended claim allows.
PhaseSteps ==
    {<<0, 1>>, <<0, 5>>, <<1, 2>>, <<1, 4>>, <<2, 3>>, <<3, 2>>, <<2, 4>>, <<4, 5>>}

\* C18 amended: the run starts in Loading and ends in Done, Filtering and
\* Analyzing alternating unit by unit in between; no Pass is built before
\* packages.Load has returned without an error, a Pass holds the filtered
\* files of its unit, the count is returned only after the last Pass's Run
\* has returned, and a run that has started always ends.
C18_PhasesPerUnit ==
    /\ [][PhaseRank(pc') = PhaseRank(pc) \/ <<PhaseRank(pc), PhaseRank(pc')>> \in PhaseSteps]_vars
    /\ [](passes # <<>> => ("load" \in effects /\ ~loadErr /\ pkgs # <<>>))
    /\ [](PhaseRank(pc) = 3 =>
              ("filter" \in effects /\ files = HandWritten(pkgs[pkgIdx]) /\ files # <<>>))
    /\ [](\A k \in 1..Len(passes) : passes[k].files = HandWritten(passes[k].unit))
    /\ []((ret # -1 /\ ~loadErr) =>
              /\ PhaseRank(pc) >= 4
              /\ pending = <<>>
              /\ Len(passes) = Len(ExpectedPairs(pkgs, analyzers))
              /\ ret = Len(reported))
    /\ (pc = "load") ~> (pc = "done" /\ ret # -1)

\* A run over two units has gone through every phase and the command is done.
C18_Witness ==
    /\ pc = "done" /\ ~loadErr /\ ret # -1
    /\ Len(pkgs) = 2 /\ Len(passes) = 4
    /\ {"load", "filter"} \subseteq effects

\* The calls of a file whose target is identifier.Errorf, with the
\* identifier's node.
ErrorfCallsOn(file) ==
    {<<call, file.nodes[file.nodes[call.kids[1]].kids[1]]>> :
        call \in {c \in CallsOf(file) :
                     /\ file.nodes[c.kids[1]].kind = "SelectorExpr"
                     /\ file.nodes[file.nodes[c.kids[1]].kids[1]].kind = "Ident"
                     /\ file.nodes[file.nodes[c.kids[1]].kids[2]].name = "Errorf"}}

\* C19 as stated: a finished pkgerrors pass has reported a call
\* identifier.Errorf(...) exactly when the identifier denotes the imported
\* package fmt, whatever its name.
C19_ResolvedAlias ==
    \A k \in 1..Len(passes) : (passes[k].rule = "pkgerrors" /\ PassDone(k)) =>
        \A n \in Range(passes[k].files) : \A cx \in ErrorfCallsOn(FileOf(n)) :
            ReportedAt(k, cx[1].pos) = IF cx[2].aux = "package fmt" THEN 1 ELSE 0

\* The call's target has the shape identifier.Function.
DirectShape(file, call) ==
    /\ file.nodes[call.kids[1]].kind = "SelectorExpr"
    /\ file.nodes[file.nodes[call.kids[1]].kids[1]].kind = "Ident"

RECURSIVE Below(_, _)
\* The nodes of the subtree of node i, i excluded.
Below(file, i) ==
    LET kids == Range(file.nodes[i].kids)
    IN  kids \cup UNION {Below(file, j) : j \in kids}

\* C20: a finished pkgerrors pass has reported nothing at a call whose target
\* is not identifier.Function, and has reported every fmt.Errorf(...) call
\* that stands inside such a call.
C20_OnlyDirectShape ==
    \A k \in 1..Len(passes) : (passes[k].rule = "pkgerrors" /\ PassDone(k)) =>
        \A n \in Range(passes[k].files) :
            LET file == FileOf(n)
            IN  \A i \in 1..Len(file.nodes) :
                    (file.nodes[i].kind = "CallExpr" /\ ~DirectShape(file, file.nodes[i])) =>
                        /\ ReportedAt(k, file.nodes[i].pos) = 0
                        /\ \A j \in Below(file, i) :
                              (/\ file.nodes[j].kind = "CallExpr"
                               /\ file.nodes[j].pos \in FmtErrorfCallSites)
                                  => ReportedAt(k, file.nodes[j].pos) = 1

\* A finished pkgerrors pass over chain.go: nothing at a.fmt.Errorf(...),
\* get().Errorf(...), m[0].Errorf(...) and the called function literal, one
\* diagnostic at each fmt.Errorf call inside them.
C20_Witness ==
    \E k \in 1..Len(passes) :
        /\ passes[k].rule = "pkgerrors" /\ PassDone(k)
        /\ passes[k].files = <<"chain.go">>
        /\ \A p \in {8061, 8099, 8132, 8150} :
              /\ ReportedAt(k, p) = 0
              /\ \E i \in 1..Len(FileChain.nodes) :
                    /\ FileChain.nodes[i].kind = "CallExpr" /\ FileChain.nodes[i].pos = p
                    /\ ~DirectShape(FileChain, FileChain.nodes[i])
        /\ \A p \in {8079, 8112, 8159} : ReportedAt(k, p) = 1


\* The comment stands in a group that the syntax tree links to no node and
\* that is not the file's header documentation.
FreeStanding(file, c) ==
    \A g \in 1..Len(file.comments) :
        c \in Range(file.comments[g]) =>
            (g # file.doc /\ \A n \in Range(file.nodes) : n.doc # g)

\* The number of the conditions that hold.
HowMany(conditions) == Cardinality({i \in 1..Len(conditions) : conditions[i]})

\* C21: for every file of a finished nocomments pass the allowed set is the
\* set of positions of the comments of the file's header documentation and
\* of the documentation of every general declaration, function declaration,
\* type spec, value spec and field; no free-standing comment is in it; and
\* every comment is exactly one of allowed documentation, a prefix-marked
\* note outside the allowed set, or reported once.
C21_AllowedSetExact ==
    \A k \in 1..Len(passes) : (passes[k].rule = "nocomments" /\ PassDone(k)) =>
        \A n \in Range(passes[k].files) :
            LET file    == FileOf(n)
                allowed == CollectDocPositions(file)
            IN  /\ allowed = DocCommentPositions(file)
                /\ \A c \in Range(CommentsOf(file)) :
                      /\ FreeStanding(file, c) => c.pos \notin allowed
                      /\ ReportedAt(k, c.pos) \in {0, 1}
                      /\ HowMany(<<c.pos \in allowed,
                                   c.pos \notin allowed /\ HasNotePrefix(c.text),
                                   ReportedAt(k, c.pos) = 1>>) = 1

\* A finished nocomments pass over nested.go: the documentation of the
\* constant in the function body carries the note prefix and is allowed as
\* documentation, the field's documentation is allowed, the free-standing
\* comment at 9967 is reported.
C21_Witness ==
    \E k \in 1..Len(passes) :
        /\ passes[k].rule = "nocomments" /\ PassDone(k)
        /\ "nested.go" \in Range(passes[k].files)
        /\ \E c \in Range(CommentsOf(FileNested)) :
              /\ c.pos = 9932 /\ HasNotePrefix(c.text)
              /\ c.pos \in CollectDocPositions(FileNested)
        /\ \E c \in Range(CommentsOf(FileNested)) : c.pos = 9967 /\ FreeStanding(FileNested, c)
        /\ ReportedAt(k, 9932) = 0 /\ ReportedAt(k, 9677) = 0 /\ ReportedAt(k, 9967) = 1

\* The declarations of a file that enclose node i.
Enclosing(file, i) ==
    {j \in 1..Len(file.nodes) : file.nodes[j].kind \in Declarations /\ i \in Below(file, j)}

\* The documented declarations of a file that stand inside another
\* declaration: a field in a struct or interface body, a spec in a general
\* declaration, a declaration in a function body.
NestedDocumented(file) ==
    {i \in 1..Len(file.nodes) :
        /\ file.nodes[i].kind \in Declarations
        /\ file.nodes[i].doc # 0
        /\ Enclosing(file, i) # {}}

\* C22: for every file of a finished nocomments pass, the documentation of a
\* declaration nested at any depth is in the allowed set and is not reported,
\* whether or not a declaration that encloses it has documentation.
C22_NestedDeclarationsVisited ==
    \A k \in 1..Len(passes) : (passes[k].rule = "nocomments" /\ PassDone(k)) =>
        \A n \in Range(passes[k].files) :
            \A i \in NestedDocumented(FileOf(n)) :
                \A c \in Range(FileOf(n).comments[FileOf(n).nodes[i].doc]) :
                    /\ c.pos \in CollectDocPositions(FileOf(n))
                    /\ ReportedAt(k, c.pos) = 0

\* A finished nocomments pass over nested.go: the field Deep (9677) is
\* documented three declarations deep, inside a documented field of an
\* undocumented type; the field X (9900) and the variable L (9821) are
\* documented inside the body of an undocumented function; the interface
\* method M (9741) inside an undocumented type. None is reported.
C22_Witness ==
    \E k \in 1..Len(passes) :
        /\ passes[k].rule = "nocomments" /\ PassDone(k)
        /\ "nested.go" \in Range(passes[k].files)
        /\ \E i \in NestedDocumented(FileNested) :
              /\ FileNested.nodes[i].kind = "Field"
              /\ Cardinality(Enclosing(FileNested, i)) >= 3
              /\ \E j \in Enclosing(FileNested, i) : FileNested.nodes[j].doc # 0
              /\ \E j \in Enclosing(FileNested, i) : FileNested.nodes[j].doc = 0
              /\ GroupPositions(FileNested, FileNested.nodes[i].doc) = {9677}
        /\ \E i \in NestedDocumented(FileNested) :
              /\ FileNested.nodes[i].kind = "GenDecl"
              /\ \A j \in Enclosing(FileNested, i) :
                    FileNested.nodes[j].kind = "FuncDecl" /\ FileNested.nodes[j].doc = 0
              /\ GroupPositions(FileNested, FileNested.nodes[i].doc) = {9821}
        /\ \A p \in {9677, 9741, 9821, 9900} : ReportedAt(k, p) = 0

\* The lines list mode prints under an analyzer's name.
ListedTexts(rule) == Range(Tail(ListBlock(AnalyzerOf(rule))))

\* C23: the text of every diagnostic reported is one of the Messages of the
\* analyzer of its Pass (MsgFmtErrorf for pkgerrors, at an import as at a
\* call, MsgNoComments for nocomments), its line on os.Stderr carries one of
\* those Messages, and list mode prints that text under the analyzer's name.
C23_MessagesDeclared ==
    \A i \in 1..Len(reported) :
        LET pass == passes[reported[i].pass]
            a    == AnalyzerOf(pass.rule)
        IN  /\ reported[i].message \in Range(a.Messages)
            /\ pass.rule = "pkgerrors" => reported[i].message = MsgFmtErrorf
            /\ pass.rule = "nocomments" => reported[i].message = MsgNoComments
            /\ ("  - " \o reported[i].message) \in ListedTexts(pass.rule)
            /\ i <= Len(DiagnosticLines) =>
                  \E m \in Range(a.Messages) :
                      DiagnosticLines[i] =
                          Position(pass.unit, reported[i].pos) \o ": " \o m \o " (" \o a.Name \o ")"

\* A finished run over errs.go and docs.go: pkgerrors has reported at an
\* import (25) and at a call (134), nocomments at a comment (1278).
C23_Witness ==
    /\ pc = "analyzed" /\ ~loadErr
    /\ \E i, j, k \in 1..Len(reported) :
          /\ passes[reported[i].pass].rule = "pkgerrors" /\ reported[i].pos = 25
          /\ passes[reported[j].pass].rule = "pkgerrors" /\ reported[j].pos = 134
          /\ passes[reported[k].pass].rule = "nocomments" /\ reported[k].pos = 1278
    /\ \E i \in Range(FileErrs.imports) : FileErrs.nodes[i].pos = 25

\* C24: a call of runAnalyzers whose packages.Load returned an error has
\* returned 1, having built no Pass and written no diagnostic line; RunE then
\* exits as it does after a run that counted one diagnostic.
C24_LoadFailureReturnsOne ==
    /\ (loadErr /\ ret # -1) =>
          (ret = 1 /\ passes = <<>> /\ reported = <<>> /\ DiagnosticLines = <<>>)
    /\ (pc = "done" /\ ret = 1) => (hasErrors /\ exitCode = 1)

\* packages.Load has failed and RunE has exited 1; a run over alias.go alone
\* counts one diagnostic and returns 1 too.
C24_Witness ==
    /\ pc = "done" /\ loadErr /\ ret = 1 /\ exitCode = 1
    /\ stderr = <<LoadFailureLine>>
    /\ Len(RunOf("pkgerrors", <<"alias.go">>)) + Len(RunOf("nocomments", <<"alias.go">>)) = 1

\* The file of a unit that holds a position.
FileAt(unit, pos) ==
    CHOOSE n \in Range(UnitOf(unit).syntax) :
        FileOf(n).base <= pos /\ pos <= FileOf(n).base + FileOf(n).size

\* The units whose turn in the loop over pkgs is over.
UnitsDone == {pkgs[j] : j \in 1..(IF pkgIdx > Len(pkgs) THEN Len(pkgs) ELSE pkgIdx - 1)}

\* C25: a Pass holds the files of its unit that are not generated, in the
\* unit's order, and at least one; every diagnostic lies in a file of its
\* Pass; a unit whose turn is over has one Pass per analyzer if it has a file
\* that is not generated, and none only if it has no such file.
C25_FilteringPerFile ==
    /\ \A k \in 1..Len(passes) :
          /\ passes[k].files = HandWritten(passes[k].unit)
          /\ passes[k].files # <<>>
    /\ \A r \in Range(reported) :
          FileAt(passes[r.pass].unit, r.pos) \in Range(passes[r.pass].files)
    /\ \A u \in UnitsDone :
          Cardinality({k \in 1..Len(passes) : passes[k].unit = u}) =
              IF HandWritten(u) = <<>> THEN 0 ELSE Len(analyzers)

\* The run over the units gen and late has returned: gen, whose one file is
\* generated, has no Pass; late has two over near.go and nested.go, in that
\* order, without the generated deep.go that stands between them, on which
\* both analyzers would report; diagnostics lie in near.go and in nested.go.
C25_Witness ==
    /\ pc = "analyzed"
    /\ pkgs = <<"gen", "late">>
    /\ UnitOf("late").syntax = <<"near.go", "deep.go", "nested.go">>
    /\ Len(passes) = 2
    /\ \A k \in 1..2 : passes[k].unit = "late" /\ passes[k].files = <<"near.go", "nested.go">>
    /\ PkgerrorsRun(<<"deep.go">>) # <<>> /\ NocommentsRun(<<"deep.go">>) # <<>>
    /\ \E r \in Range(reported) : FileAt("late", r.pos) = "near.go"
    /\ \E r \in Range(reported) : FileAt("late", r.pos) = "nested.go"
    /\ ~\E r \in Range(reported) : FileAt("late", r.pos) = "deep.go"

\* The text "// Code generated" and the text "DO NOT EDIT.".
CodeGenerated ==
    <<"/", "/", " ", "C", "o", "d", "e", " ", "g", "e", "n", "e", "r", "a", "t", "e", "d">>

DoNotEdit == <<"D", "O", " ", "N", "O", "T", " ", "E", "D", "I", "T", ".">>

\* The raw text of the comment starts with "// Code generated" and ends with
\* "DO NOT EDIT.", compared character by character.
IsMarker(text) ==
    /\ Len(text) >= Len(CodeGenerated)
    /\ \A i \in 1..Len(CodeGenerated) : text[i] = CodeGenerated[i]
    /\ \A i \in 1..Len(DoNotEdit) : text[Len(text) - Len(DoNotEdit) + i] = DoNotEdit[i]

\* A comment of the file, anywhere in it, is such a marker.
HasMarker(file) == \E c \in Range(CommentsOf(file)) : IsMarker(c.text)

\* C26: a file of a unit is among the files of the unit's Passes exactly when
\* no comment of it, wherever it stands, starts with "// Code generated" and
\* ends with "DO NOT EDIT."; no analyzer has reported anything in a file that
\* has such a comment.
C26_GeneratedIffMarker ==
    /\ \A k \in 1..Len(passes) : \A n \in Range(UnitOf(passes[k].unit).syntax) :
          n \in Range(passes[k].files) <=> ~HasMarker(FileOf(n))
    /\ \A r \in Range(reported) : ~HasMarker(FileOf(FileAt(passes[r.pass].unit, r.pos)))

\* Both Passes over the unit late have run. deep.go, whose marker is a
\* comment inside a function body and not in the first comment group, is in
\* neither and nothing is reported in it, although both analyzers report on
\* it when asked; near.go, whose comments miss the marker by its last
\* character, by the space after the slashes and by being a block comment,
\* is in both, and those comments are reported.
C26_Witness ==
    /\ Len(passes) >= 2 /\ PassDone(2)
    /\ passes[1].unit = "late" /\ passes[2].unit = "late"
    /\ \A k \in 1..2 : "deep.go" \notin Range(passes[k].files) /\ "near.go" \in Range(passes[k].files)
    /\ \E g \in 2..Len(FileDeep.comments) : \E c \in Range(FileDeep.comments[g]) :
          /\ IsMarker(c.text)
          /\ \E n \in Range(FileDeep.nodes) : n.kind = "FuncDecl" /\ n.pos < c.pos
    /\ ~\E c \in Range(FileDeep.comments[1]) : IsMarker(c.text)
    /\ PkgerrorsRun(<<"deep.go">>) # <<>> /\ NocommentsRun(<<"deep.go">>) # <<>>
    /\ ~\E r \in Range(reported) : FileAt("late", r.pos) = "deep.go"
    /\ \A p \in {9014, 9053, 9092} : \E r \in Range(reported) : r.pos = p

\* C27: golangci-lint is run before packages.Load, and a step that runs it
\* leads into runAnalyzers whatever it returned; once the command is done
\* after a golangci-lint run, runAnalyzers has returned, and if the load
\* succeeded every expected Pass was built and every diagnostic of the rules
\* was reported and counted; a failed golangci-lint run leaves the failure
\* flag set and the exit status 1; a command that has run golangci-lint
\* always gets to the end of runAnalyzers and of RunE.
C27_AnalyzersAfterGolangci ==
    /\ [][(pc = "golangci" /\ pc' # pc) => (pc' = "load" /\ "golangci" \in effects')]_vars
    /\ []("load" \in effects => "golangci" \in effects)
    /\ []((pc = "done" /\ "golangci" \in effects) =>
              /\ "load" \in effects /\ ret # -1
              /\ ~loadErr =>
                    /\ Len(passes) = Len(ExpectedPairs(pkgs, analyzers))
                    /\ Len(reported) = RuleOutputTotal(passes)
                    /\ ret = Len(reported)
                    /\ Len(DiagnosticLines) = Len(reported)
              /\ golangciErr => (hasErrors /\ exitCode = 1))
    /\ [](golangciErr => hasErrors)
    /\ ("golangci" \in effects) ~> (pc = "done" /\ ret # -1)

\* golangci-lint has failed and the command is done: the rules' diagnostics
\* of the same invocation stand on os.Stderr and were counted.
C27_Witness ==
    /\ pc = "done" /\ golangciErr /\ ~loadErr
    /\ ret >= 2 /\ Len(reported) = ret /\ Len(DiagnosticLines) = ret
    /\ \E r \in Range(reported) : passes[r.pass].rule = "pkgerrors"
    /\ \E r \in Range(reported) : passes[r.pass].rule = "nocomments"
    /\ exitCode = 1

\* The commands of the loop that are not skipped, as the loop runs them.
StepsToRun ==
    LET kept == SelectSeq(Commands, LAMBDA c : ~(c.skipInCI /\ rootCmd.isCI))
    IN  [k \in 1..Len(kept) |-> ArgsOf(kept[k], rootCmd.verbose)]

\* PersistentPreRunE has returned nil, so that RunE was entered.
RunEEntered ==
    /\ rootCmd.pc \notin {"none", "PersistentPreRunE", "dropLocalReplaces", "installToolDeps"}
    /\ \A s \in Range(rootCmd.setups) : s.proc = "do" => s.err = "nil"

\* C28: the commands the root command has run are the first of its list, each
\* once and in the list's order, each with its result; every one but the
\* last has succeeded, so none was started after a failure; a command that
\* has ended returns the error of the command that failed, and returns nil,
\* with exit status 0, only if every command of the list was run and none
\* failed.
C28_StopsAtFirstFailure ==
    rootCmd.pc # "none" =>
        /\ Len(rootCmd.results) = Len(rootCmd.ran)
        /\ Len(rootCmd.ran) <= Len(StepsToRun)
        /\ rootCmd.ran = SubSeq(StepsToRun, 1, Len(rootCmd.ran))
        /\ \A i \in 1..Len(rootCmd.results) - 1 : rootCmd.results[i] = "nil"
        /\ rootCmd.pc # "done" => \A i \in 1..Len(rootCmd.results) : rootCmd.results[i] = "nil"
        /\ (rootCmd.pc = "done" /\ RunEEntered) =>
              /\ rootCmd.results # <<>>
              /\ rootCmd.err = rootCmd.results[Len(rootCmd.results)]
              /\ rootCmd.err = "nil" <=>
                    (rootCmd.ran = StepsToRun /\ \A i \in 1..Len(rootCmd.results) : rootCmd.results[i] = "nil")
              /\ exitCode = IF rootCmd.err = "nil" THEN 0 ELSE 1

\* go build has failed after go generate and go mod tidy succeeded: the
\* command has ended with go build's error, and go vet, do lint and go test
\* were not started.
C28_Witness ==
    /\ rootCmd.pc = "done"
    /\ Len(rootCmd.ran) = 3
    /\ rootCmd.ran[3][2] = "build"
    /\ rootCmd.results = <<"nil", "nil", "exit status 1">>
    /\ rootCmd.err = "exit status 1"
    /\ exitCode = 1
    /\ Len(StepsToRun) = 6

\* The state is inside or after a call of runWithRetry with maxRetries >= 1.
InRetry == updateCmd.pc \in {"loop", "run", "returned", "done"} /\ updateCmd.maxRetries >= 1

\* C29: a call of runWithRetry with maxRetries >= 1 has run the command at
\* most maxRetries times and no attempt follows a successful one; it has
\* slept and printed once before every attempt but the first; once returned,
\* its result is nil exactly when its last attempt succeeded, and an error,
\* the last attempt's with a stack, exactly when maxRetries attempts were
\* made and all failed.
C29_RetryBounded ==
    InRetry =>
        LET runs == updateCmd.runs
        IN  /\ Len(runs) <= updateCmd.maxRetries
            /\ \A k \in 1..Len(runs) - 1 : runs[k] # "nil"
            /\ updateCmd.pc \in {"loop", "run"} =>
                  (updateCmd.result = "none" /\ \A k \in 1..Len(runs) : runs[k] # "nil")
            /\ updateCmd.slept = (IF updateCmd.pc = "run" \/ runs = <<>> THEN Len(runs)
                                  ELSE Len(runs) - 1)
            /\ Len(stdout) = updateCmd.slept
            /\ updateCmd.pc \in {"returned", "done"} =>
                  /\ runs # <<>>
                  /\ updateCmd.result = "nil" <=> runs[Len(runs)] = "nil"
                  /\ updateCmd.result # "nil" <=>
                        (Len(runs) = updateCmd.maxRetries /\ \A k \in 1..Len(runs) : runs[k] # "nil")
                  /\ updateCmd.result # "nil" =>
                        updateCmd.result = WithStack(runs[Len(runs)])

\* "do update --direct" has returned after two failed attempts and a third
\* that succeeded.
C29_Witness ==
    /\ updateCmd.pc = "done" /\ updateCmd.caller = "RunE" /\ updateCmd.maxRetries = 3
    /\ Len(updateCmd.runs) = 3
    /\ updateCmd.runs[1] # "nil" /\ updateCmd.runs[2] # "nil" /\ updateCmd.runs[3] = "nil"
    /\ updateCmd.result = "nil" /\ exitCode = 0
    /\ stdout = <<"Retrying (2/3)...", "Retrying (3/3)...">>

\* The setup steps a process has performed.
SetupsOf(proc) == SelectSeq(rootCmd.setups, LAMBDA s : s.proc = proc)

\* C30: with CI=true, across the "do" process and the "do lint" process it
\* starts, each setup step has run at most once, dropLocalReplaces before
\* installToolDeps, all in one process; that process had set
\* DO_CI_SETUP_DONE to "1" before it ran them; a process whose
\* ciSetupIfNeeded read "1" from DO_CI_SETUP_DONE has performed no setup
\* step, and the "do lint" process the "do" process starts always reads "1".
C30_CiSetupOnce ==
    rootCmd.isCI =>
        /\ \A step \in {"dropLocalReplaces", "installToolDeps"} :
              Cardinality({i \in 1..Len(rootCmd.setups) : rootCmd.setups[i].step = step}) <= 1
        /\ \A i, j \in 1..Len(rootCmd.setups) :
              /\ rootCmd.setups[i].proc = rootCmd.setups[j].proc
              /\ i < j => (/\ rootCmd.setups[i].step = "dropLocalReplaces"
                           /\ rootCmd.setups[j].step = "installToolDeps")
        /\ \A s \in Range(rootCmd.setups) : s.setupDone = "1"
        /\ rootCmd.saw = "1" => SetupsOf("do") = <<>>
        /\ (rootCmd.child.pc # "none" /\ rootCmd.child.saw = "1") => SetupsOf("lint") = <<>>
        /\ (rootCmd.pc # "none" /\ rootCmd.child.pc \notin {"none", "PersistentPreRunE"}) =>
              rootCmd.child.saw = "1"
        /\ (rootCmd.pc \notin {"none", "PersistentPreRunE", "dropLocalReplaces"}
              /\ rootCmd.saw = "") =>
              \E s \in Range(rootCmd.setups) : s.proc = "do" /\ s.step = "dropLocalReplaces"

\* With CI=true and DO_CI_SETUP_DONE unset, the "do" process has performed
\* both setup steps and started "do lint", which read "1" from
\* DO_CI_SETUP_DONE, performed none and has exited.
C30_Witness ==
    /\ rootCmd.isCI /\ rootCmd.saw = "" /\ rootCmd.setupDone = "1"
    /\ Len(SetupsOf("do")) = 2
    /\ rootCmd.child.pc = "exited" /\ rootCmd.child.saw = "1"
    /\ SetupsOf("lint") = <<>>
    /\ rootCmd.pc = "done"
=============================================================================
